---- MODULE Spec2Model ----
(***************************************************************************)
(* A model of mrenv's environment resolution pipeline: the env-file        *)
(* reader, the runtime classifier, the visibility filter, the schema       *)
(* validator, the guarded accessor and the framework adapters.             *)
(*                                                                         *)
(* JavaScript strings are sequences of one-character strings, so that      *)
(* startsWith, trim, toLowerCase, Number and JSON.parse are computed, not  *)
(* assumed.  A JavaScript object (Record<string, T>) is a function whose   *)
(* DOMAIN is the set of its own keys.                                      *)
(***************************************************************************)
EXTENDS Integers, Sequences, FiniteSets, TLC

VARIABLES
    valIn,      \* the (env, schema) pair handed to SchemaValidator.validate
    valOut,     \* what validate returned for it: [ok, errors, typed]
    fs,         \* the working directory: file name -> absent, unreadable or its text
    procEnv,    \* process.env, or None on a host without the global process
    envCache,   \* EnvReader.envCache: file path -> the mapping parsed from it
    watchers,   \* EnvReader.watchers: the fs.FSWatcher objects pushed so far
    readOut,    \* the last readEnvFiles call: its arguments and what it returned
    host,       \* the globals the host defines (Deno, window, self, ...)
    envIn,      \* the configuration handed to createEnv
    envOut,     \* what the createEnv call did and returned
    envStore,   \* env.ts: the global store, key -> [value, type]
    storeWatchers,  \* env.ts: the chokidar watchers registered by the last call
    typesFile,  \* env.ts: node_modules/.superenv/env.d.ts, None until written
    getOut,     \* the last read through an accessor: the property and what came of it
    adOut,      \* a framework adapter's call: the env it holds and what it returned
    adHook,     \* the last hook or request the adapter served, and what it emitted
    parIn,      \* the text or mapping handed to a function of parser.ts
    parOut,     \* what the parser functions returned for it
    registry    \* adapters/index.ts: the map of adapter classes, name -> class

vars == <<valIn, valOut, fs, procEnv, envCache, watchers, readOut,
          host, envIn, envOut, envStore, storeWatchers, typesFile, getOut,
          adOut, adHook, parIn, parOut, registry>>

\* The call records of the pure functions, the validator and the parsers, and
\* the adapter registry.
valVars    == <<valIn, valOut, parIn, parOut, registry>>
readerVars == <<fs, procEnv, envCache, watchers, readOut>>
envVars    == <<host, envIn, envOut, envStore, storeWatchers, typesFile, getOut,
                adOut, adHook>>

(***************************************************************************)
(* Strings                                                                 *)
(***************************************************************************)
EmptyStr == <<>>

Digits == <<"0", "1", "2", "3", "4", "5", "6", "7", "8", "9">>

UpperCase == <<"A", "B", "C", "D", "E", "F", "G", "H", "I", "J", "K", "L", "M",
               "N", "O", "P", "Q", "R", "S", "T", "U", "V", "W", "X", "Y", "Z">>

LowerCase == <<"a", "b", "c", "d", "e", "f", "g", "h", "i", "j", "k", "l", "m",
               "n", "o", "p", "q", "r", "s", "t", "u", "v", "w", "x", "y", "z">>

IsDigit(c) == \E i \in DOMAIN Digits : Digits[i] = c

DigitValue(c) == (CHOOSE i \in DOMAIN Digits : Digits[i] = c) - 1

\* The characters String.prototype.trim removes and JSON allows around a value.
IsWhiteSpace(c) == c \in {" ", "\t", "\n", "\r"}

ToLowerChar(c) ==
    IF \E i \in DOMAIN UpperCase : UpperCase[i] = c
    THEN LowerCase[CHOOSE i \in DOMAIN UpperCase : UpperCase[i] = c]
    ELSE c

\* String.prototype.toLowerCase
ToLowerCase(s) == [i \in DOMAIN s |-> ToLowerChar(s[i])]

\* String.prototype.startsWith
StartsWith(s, p) == Len(p) <= Len(s) /\ SubSeq(s, 1, Len(p)) = p

\* String.prototype.endsWith
EndsWith(s, p) == Len(p) <= Len(s) /\ SubSeq(s, Len(s) - Len(p) + 1, Len(s)) = p

\* String.prototype.trim
Trim(s) ==
    LET keep == {i \in DOMAIN s : ~IsWhiteSpace(s[i])}
    IN  IF keep = {} THEN EmptyStr
        ELSE SubSeq(s, CHOOSE i \in keep : \A j \in keep : i <= j,
                       CHOOSE i \in keep : \A j \in keep : j <= i)

RECURSIVE DigitsValue(_)
\* The value of a non-empty run of decimal digits.
DigitsValue(s) ==
    IF Len(s) = 0 THEN 0
    ELSE 10 * DigitsValue(SubSeq(s, 1, Len(s) - 1)) + DigitValue(s[Len(s)])

AllDigits(s) == Len(s) > 0 /\ \A i \in DOMAIN s : IsDigit(s[i])

(***************************************************************************)
(* JavaScript values.  A value is a record whose field t is its type tag;  *)
(* NaN is a number value of its own.                                       *)
(***************************************************************************)
Undefined == [t |-> "undefined"]
Null      == [t |-> "null"]
NaN       == [t |-> "NaN"]
StrV(s)   == [t |-> "string", v |-> s]
NumV(n)   == [t |-> "number", v |-> n]
BoolV(b)  == [t |-> "boolean", v |-> b]

\* t without its leading sign character, when it has one of the given signs.
Unsigned(t, signs) == IF Len(t) > 0 /\ t[1] \in signs THEN Tail(t) ELSE t

\* The number a trimmed, non-empty string denotes, body being t without its sign.
SignedDigits(t, body) ==
    IF ~AllDigits(body) THEN NaN
    ELSE IF t[1] = "-" THEN NumV(0 - DigitsValue(body))
    ELSE NumV(DigitsValue(body))

TrimmedToNumber(t) ==
    IF t = EmptyStr THEN NumV(0) ELSE SignedDigits(t, Unsigned(t, {"+", "-"}))

\* Number(string): StringToNumber on a string made of white space, an optional
\* sign and decimal digits.  A string that is empty after trimming is 0.
\* (Fractions, exponents, hex literals and Infinity are outside the strings
\* this model feeds it.)
ToNumber(s) == TrimmedToNumber(Trim(s))

\* A JSON integer -?(0|[1-9][0-9]*), body being t without its minus sign.
JSONInteger(t, body) ==
    IF AllDigits(body) /\ (Len(body) = 1 \/ body[1] # "0")
    THEN [ok |-> TRUE, v |-> SignedDigits(t, body)]
    ELSE [ok |-> FALSE, v |-> Undefined]

TrimmedJSONParse(t) ==
    IF t = <<"t", "r", "u", "e">> THEN [ok |-> TRUE, v |-> BoolV(TRUE)]
    ELSE IF t = <<"f", "a", "l", "s", "e">> THEN [ok |-> TRUE, v |-> BoolV(FALSE)]
    ELSE IF t = <<"n", "u", "l", "l">> THEN [ok |-> TRUE, v |-> Null]
    ELSE JSONInteger(t, Unsigned(t, {"-"}))

\* JSON.parse on a string without quotes, brackets or braces: the literals
\* true, false and null and integers -?(0|[1-9][0-9]*), white space allowed
\* around them; anything else is a SyntaxError (ok = FALSE).
JSONParse(s) == TrimmedJSONParse(Trim(s))

(***************************************************************************)
(* JavaScript objects                                                      *)
(***************************************************************************)
EmptyObject == <<>>

\* obj[key]: a raw string of a Record<string, string>, or undefined.
Get(obj, key) == IF key \in DOMAIN obj THEN StrV(obj[key]) ELSE Undefined

\* obj[key] = value
Put(obj, key, value) == [k \in DOMAIN obj \cup {key} |-> IF k = key THEN value ELSE obj[k]]

\* Object.assign({}, low, high) and { ...low, ...high }: high wins.
Assign(low, high) ==
    [k \in DOMAIN low \cup DOMAIN high |-> IF k \in DOMAIN high THEN high[k] ELSE low[k]]

\* The object that keeps obj's entries whose key is in keys (a reduce over Object.keys).
Restrict(obj, keys) == [k \in DOMAIN obj \cap keys |-> obj[k]]

(***************************************************************************)
(* Schema Validator: src/src/core/schema.ts                                *)
(***************************************************************************)
\* The error strings validate collects: the fixed text, the key (or the zod
\* issue's path) and the variable part of the message.
MissingError(key) ==
    [kind |-> "Missing required environment variable", key |-> key, detail |-> EmptyStr]

InvalidError(key) ==
    [kind |-> "Invalid value for environment variable", key |-> key, detail |-> EmptyStr]

ParsingError(key, message) ==
    [kind |-> "Error parsing environment variable", key |-> key, detail |-> message]

ZodIssueError(issue) ==
    [kind |-> "zod issue", key |-> issue.path, detail |-> issue.message]

UnknownErrorText == <<"U", "n", "k", "n", "o", "w", "n", " ", "e", "r", "r", "o", "r">>

\* error.message || "Unknown error"
OtherError(message) ==
    [kind |-> "error", key |-> EmptyStr,
     detail |-> IF message = EmptyStr THEN UnknownErrorText ELSE message]

\* The outcome of a conversion: the value, or threw = TRUE with the message
\* of the Error (the raw string stands for the message's variable part).
Converted(v) == [threw |-> FALSE, v |-> v, message |-> EmptyStr]

ConversionError(raw) == [threw |-> TRUE, v |-> Undefined, message |-> raw]

\* const num = Number(value); if (isNaN(num)) throw ...; return num
NumberOrThrow(num, raw) == IF num = NaN THEN ConversionError(raw) ELSE Converted(num)

\* JSON.parse(value), whose SyntaxError is rethrown as an Error
JSONOrThrow(parsed, raw) == IF parsed.ok THEN Converted(parsed.v) ELSE ConversionError(raw)

convertValue(value, type) ==
    IF value = Undefined \/ value = Null THEN Converted(Undefined)
    ELSE CASE type = "string" -> Converted(value)
           [] type = "number" -> NumberOrThrow(ToNumber(value.v), value.v)
           [] type = "boolean" ->
                Converted(BoolV(ToLowerCase(value.v) \in
                                  {<<"t", "r", "u", "e">>, <<"1">>, <<"y", "e", "s">>}))
           [] type = "json" -> JSONOrThrow(JSONParse(value.v), value.v)
           [] OTHER -> Converted(value)

\* def.validate(convertedValue) for the validators the model supplies:
\* "accept" returns true and "reject" returns false, for every value.
CallValidator(validator, value) == validator = "accept"

\* One iteration of the loop of validateWithCustomSchema over
\* Object.entries(schema), for the entry key: def, with value = env[key] and
\* conv = convertValue(value, def.type); acc is [errors, typed].
CustomSchemaEntry(key, def, value, conv, acc) ==
    IF ~def.present THEN acc
    ELSE IF def.required /\ (value = Undefined \/ value = Null)
         THEN [acc EXCEPT !.errors = Append(@, MissingError(key))]
    ELSE IF (value = Undefined \/ value = Null) /\ def.default # Undefined
         THEN [acc EXCEPT !.typed = Put(@, key, def.default)]
    ELSE IF conv.threw
         THEN [acc EXCEPT !.errors = Append(@, ParsingError(key, conv.message))]
    ELSE IF def.validate # "none" /\ ~CallValidator(def.validate, conv.v)
         THEN [errors |-> Append(acc.errors, InvalidError(key)),
               typed  |-> Put(acc.typed, key, conv.v)]
    ELSE [acc EXCEPT !.typed = Put(@, key, conv.v)]

CustomSchemaStep(env, entry, acc) ==
    CustomSchemaEntry(entry.key, entry.def, Get(env, entry.key),
                      convertValue(Get(env, entry.key), entry.def.type), acc)

\* The loop of validateWithCustomSchema, had it returned at the first key
\* that records an error.
RECURSIVE CustomSchemaLoopFailFast(_, _, _, _)
CustomSchemaLoopFailFast(env, entries, i, acc) ==
    IF i > Len(entries) \/ acc.errors # <<>> THEN acc
    ELSE CustomSchemaLoopFailFast(env, entries, i + 1, CustomSchemaStep(env, entries[i], acc))

RECURSIVE CustomSchemaLoop(_, _, _, _)
CustomSchemaLoop(env, entries, i, acc) ==
    IF i > Len(entries) THEN acc
    ELSE CustomSchemaLoop(env, entries, i + 1, CustomSchemaStep(env, entries[i], acc))

\* return [errors.length === 0, errors, typedEnv]
CustomSchemaResult(acc) ==
    [ok |-> acc.errors = <<>>, errors |-> acc.errors, typed |-> acc.typed,
     parseArg |-> EmptyObject]

validateWithCustomSchema(env, schema) ==
    CustomSchemaResult(CustomSchemaLoop(env, schema.entries, 1,
                                        [errors |-> <<>>, typed |-> EmptyObject]))

\* The steps of preprocessEnvForZod on one value after JSON.parse failed: the
\* numeric-literal pattern /^-?\d+(\.\d+)?$/ (no fraction in the strings of
\* this model), then true/false ignoring case, then the string itself.
PreprocessUnparsed(s, lower) ==
    IF AllDigits(Unsigned(s, {"-"})) THEN ToNumber(s)
    ELSE IF lower = <<"t", "r", "u", "e">> THEN BoolV(TRUE)
    ELSE IF lower = <<"f", "a", "l", "s", "e">> THEN BoolV(FALSE)
    ELSE StrV(s)

PreprocessParsed(s, parsed) ==
    IF parsed.ok THEN parsed.v ELSE PreprocessUnparsed(s, ToLowerCase(s))

\* One value of preprocessEnvForZod, had it not tried JSON.parse first.
PreprocessValueWithoutJSON(s) == PreprocessUnparsed(s, ToLowerCase(s))

\* One value of preprocessEnvForZod: JSON.parse first.
PreprocessValue(s) == PreprocessParsed(s, JSONParse(s))

preprocessEnvForZod(env) == [k \in DOMAIN env |-> PreprocessValue(env[k])]

\* What validateWithZod returns when schema.parse(processedEnv) does p.  What
\* parse does with its argument belongs to the caller's schema: p names it
\* (returns a mapping, throws a ZodError that carries a list of issues, throws
\* another Error with a message).
ZodResult(p, processedEnv) ==
    CASE p.does = "return" ->
           [ok |-> TRUE, errors |-> <<>>, typed |-> p.value, parseArg |-> processedEnv]
      [] p.does = "throw ZodError" ->
           [ok |-> FALSE,
            errors |-> [i \in DOMAIN p.issues |-> ZodIssueError(p.issues[i])],
            typed |-> EmptyObject, parseArg |-> processedEnv]
      [] p.does = "throw Error" ->
           [ok |-> FALSE, errors |-> <<OtherError(p.message)>>,
            typed |-> EmptyObject, parseArg |-> processedEnv]

validateWithZod(env, schema) == ZodResult(schema.parse, preprocessEnvForZod(env))

\* isZodSchema: typeof schema.parse === "function"
isZodSchema(schema) == schema.form = "external"

\* SchemaValidator.validate
validate(env, schema) ==
    IF isZodSchema(schema) THEN validateWithZod(env, schema)
    ELSE validateWithCustomSchema(env, schema)

(***************************************************************************)
(* The inputs of the validator runs                                        *)
(***************************************************************************)
MaxIssues == 2      \* the longest issue list a thrown ZodError carries

PORT  == <<"P", "O", "R", "T">>
DEBUG == <<"D", "E", "B", "U", "G">>

\* Raw strings: numerals, blanks, the boolean words in several cases, others.
RawStrings ==
    { <<"3", "0", "0", "0">>, <<"a", "b", "c">>, EmptyStr, <<" ">>, <<" ", "\t">>,
      <<"-", "5">>, <<"+", "7">>, <<" ", "4", "2", " ">>, <<"0", "5">>, <<"1", "2", "a">>,
      <<"t", "r", "u", "e">>, <<"T", "R", "U", "E">>, <<"T", "r", "u", "e">>,
      <<"1">>, <<"y", "e", "s">>, <<"Y", "e", "s">>,
      <<"f", "a", "l", "s", "e">>, <<"F", "A", "L", "S", "E">>, <<"0">>,
      <<"n", "o">>, <<"N", "O">>, <<"m", "a", "y", "b", "e">>, <<"o", "n">>,
      <<"n", "u", "l", "l">> }

FewRawStrings ==
    { <<"3", "0", "0", "0">>, <<"a", "b", "c">>, EmptyStr, <<"y", "e", "s">> }

Types == {"string", "number", "boolean", "json"}

\* The default a descriptor of the given type declares, when it declares one.
DefaultOf(type) ==
    CASE type = "number"  -> NumV(8080)
      [] type = "boolean" -> BoolV(FALSE)
      [] OTHER            -> StrV(<<"d", "f", "l", "t">>)

Descriptors ==
    { [present |-> TRUE, type |-> ty, required |-> rq,
       default |-> IF hd THEN DefaultOf(ty) ELSE Undefined, validate |-> va] :
         ty \in Types, rq \in BOOLEAN, hd \in BOOLEAN, va \in {"none", "accept", "reject"} }

\* A schema key whose definition is undefined (EnvSchema's entries are optional).
NoDescriptor ==
    [present |-> FALSE, type |-> "string", required |-> FALSE,
     default |-> Undefined, validate |-> "none"]

FewDescriptors ==
    { d \in Descriptors :
        /\ d.type \in {"number", "boolean"}
        /\ d.validate \in {"none", "reject"}
        /\ (d.default # Undefined => ~d.required) }

DescriptorTable(entries) == [form |-> "descriptor", entries |-> entries]

ExternalSchema(parse) == [form |-> "external", parse |-> parse]

\* Environments over the given keys: every key absent or bound to a raw string.
EnvsOver(keys, raws) == UNION { [ks -> raws] : ks \in SUBSET keys }

ZodIssue == [path |-> PORT, message |-> <<"R", "e", "q", "u", "i", "r", "e", "d">>]

ParseBehaviours ==
    { [does |-> "return", value |-> v, issues |-> <<>>, message |-> EmptyStr] :
         v \in {EmptyObject, (PORT :> NumV(3000))} }
    \cup { [does |-> "throw ZodError", value |-> EmptyObject,
            issues |-> [i \in 1..n |-> ZodIssue], message |-> EmptyStr] : n \in 0..MaxIssues }
    \cup { [does |-> "throw Error", value |-> EmptyObject, issues |-> <<>>, message |-> m] :
             m \in {EmptyStr, <<"b", "o", "o", "m">>} }

\* (env, schema) pairs: every descriptor against every raw string for one key,
\* pairs of descriptors for two keys, and the external schemas.
ValidateInputs ==
    { [env |-> e, schema |-> DescriptorTable(<<[key |-> PORT, def |-> d]>>)] :
         e \in EnvsOver({PORT}, RawStrings), d \in Descriptors \cup {NoDescriptor} }
    \cup { [env |-> e,
            schema |-> DescriptorTable(<<[key |-> PORT, def |-> d1], [key |-> DEBUG, def |-> d2]>>)] :
             e \in EnvsOver({PORT, DEBUG}, FewRawStrings),
             d1 \in FewDescriptors, d2 \in FewDescriptors }
    \cup { [env |-> e, schema |-> ExternalSchema(b)] :
             e \in EnvsOver({PORT}, RawStrings), b \in ParseBehaviours }

(***************************************************************************)
(* The env-file reader (core/envReader.ts)                                 *)
(***************************************************************************)
\* An optional argument: None is undefined, Some(x) is the value x.
None    == [some |-> FALSE]
Some(x) == [some |-> TRUE, v |-> x]

\* A file of the working directory.
Absent      == [kind |-> "absent"]
Unreadable  == [kind |-> "unreadable"]
File(text)  == [kind |-> "file", text |-> text]

defaultPatterns ==
    << [pattern |-> ".env.local",             priority |-> 1],
       [pattern |-> ".env.development.local", priority |-> 2],
       [pattern |-> ".env.test.local",        priority |-> 3],
       [pattern |-> ".env.production.local",  priority |-> 4],
       [pattern |-> ".env.development",       priority |-> 5],
       [pattern |-> ".env.test",              priority |-> 6],
       [pattern |-> ".env.production",        priority |-> 7],
       [pattern |-> ".env",                   priority |-> 8] >>

\* [...patterns].sort((a, b) => a.priority - b.priority)
RECURSIVE SortByPriority(_)
SortByPriority(patterns) ==
    IF patterns = <<>> THEN <<>>
    ELSE LET i == CHOOSE j \in DOMAIN patterns :
                      /\ \A k \in DOMAIN patterns : patterns[j].priority <= patterns[k].priority
                      /\ \A k \in 1..(j - 1) : patterns[k].priority > patterns[j].priority
             rest == [k \in 1..(Len(patterns) - 1) |->
                          IF k < i THEN patterns[k] ELSE patterns[k + 1]]
         IN  <<patterns[i]>> \o SortByPriority(rest)

\* array.includes(x)
Includes(array, x) == \E i \in DOMAIN array : array[i] = x

\* array.filter(keep)
RECURSIVE Without(_, _)
Without(array, excluded) ==
    IF array = <<>> THEN <<>>
    ELSE (IF Includes(excluded, Head(array)) THEN <<>> ELSE <<Head(array)>>)
             \o Without(Tail(array), excluded)

getEnvFiles(customPaths, excludePatterns) ==
    IF customPaths.some /\ Len(customPaths.v) > 0
    THEN customPaths.v
    ELSE LET sorted   == SortByPriority(defaultPatterns)
             patterns == [i \in DOMAIN sorted |-> sorted[i].pattern]
         IN  IF excludePatterns.some
             THEN Without(patterns, excludePatterns.v)
             ELSE patterns

\* s.indexOf(c) + 1: the position of the first c in s, 0 when there is none.
IndexOf(s, c) ==
    IF \E i \in DOMAIN s : s[i] = c
    THEN CHOOSE i \in DOMAIN s : s[i] = c /\ \A j \in 1..(i - 1) : s[j] # c
    ELSE 0

\* content.split("\n")
RECURSIVE SplitLines(_)
SplitLines(content) ==
    LET i == IndexOf(content, "\n")
    IN  IF i = 0 THEN <<content>>
        ELSE <<SubSeq(content, 1, i - 1)>> \o SplitLines(SubSeq(content, i + 1, Len(content)))

\* The quote removal of parseEnvFile: value.substring(1, value.length - 1) when
\* the value starts and ends with the same quote character.  substring swaps
\* its arguments when the first is larger, so a lone quote stays as it is.
StripQuotes(value) ==
    IF \/ StartsWith(value, <<"\"">>) /\ EndsWith(value, <<"\"">>)
       \/ StartsWith(value, <<"'">>) /\ EndsWith(value, <<"'">>)
    THEN IF Len(value) = 1 THEN value ELSE SubSeq(value, 2, Len(value) - 1)
    ELSE value

\* env[varName] || process.env[varName] || "".  penv is process.env, or None
\* where the host defines no global named process.
LookupForExpansion(varName, env, penv) ==
    IF varName \in DOMAIN env /\ env[varName] # EmptyStr THEN env[varName]
    ELSE IF penv.some /\ varName \in DOMAIN penv.v /\ penv.v[varName] # EmptyStr
    THEN penv.v[varName]
    ELSE EmptyStr

\* The same expression throws a ReferenceError when it reaches process.env on
\* a host without process.
LookupThrows(varName, env, penv) ==
    /\ ~(varName \in DOMAIN env /\ env[varName] # EmptyStr)
    /\ ~penv.some

\* The positions where /\${([^}]+)}/ matches in value.
BraceMatches(value) ==
    { i \in DOMAIN value :
        /\ i + 3 <= Len(value)
        /\ value[i] = "$"
        /\ value[i + 1] = "{"
        /\ value[i + 2] # "}"
        /\ \E j \in (i + 3)..Len(value) : value[j] = "}" }

\* The leftmost match: the positions of its "$" and of its "}".
FirstBraceMatch(value, matches) ==
    LET i == CHOOSE m \in matches : \A n \in matches : m <= n
    IN  [from |-> i,
         to   |-> CHOOSE c \in (i + 3)..Len(value) :
                      value[c] = "}" /\ \A d \in (i + 3)..(c - 1) : value[d] # "}"]

\* value.replace(/\${([^}]+)}/g, ...): [threw, value].  The replacement function
\* throws when it reaches process.env on a host without process.
RECURSIVE ExpandBraces(_, _, _)
ExpandRest(head, rest) ==
    [threw |-> rest.threw, value |-> head \o rest.value]

ExpandMatch(value, env, penv, m) ==
    IF LookupThrows(SubSeq(value, m.from + 2, m.to - 1), env, penv)
    THEN [threw |-> TRUE, value |-> value]
    ELSE ExpandRest(SubSeq(value, 1, m.from - 1)
                        \o LookupForExpansion(SubSeq(value, m.from + 2, m.to - 1), env, penv),
                    ExpandBraces(SubSeq(value, m.to + 1, Len(value)), env, penv))

ExpandMatches(value, env, penv, matches) ==
    IF matches = {} THEN [threw |-> FALSE, value |-> value]
    ELSE ExpandMatch(value, env, penv, FirstBraceMatch(value, matches))

ExpandBraces(value, env, penv) == ExpandMatches(value, env, penv, BraceMatches(value))

\* The key and the value /^([^=]+)=(.*)$/ captures in a trimmed line: a
\* non-empty key before the first "=" and a value with no line terminator
\* in it.  None when the line does not match.
KeyValueMatch(trimmedLine) ==
    LET eq == IndexOf(trimmedLine, "=")
    IN  IF eq <= 1 THEN None
        ELSE IF \E i \in (eq + 1)..Len(trimmedLine) : trimmedLine[i] = "\r" THEN None
        ELSE Some([key   |-> SubSeq(trimmedLine, 1, eq - 1),
                   value |-> SubSeq(trimmedLine, eq + 1, Len(trimmedLine))])

\* env[key] = value, or the exception of the expansion; acc is [threw, env].
StoreExpanded(acc, key, expanded) ==
    IF expanded.threw THEN [acc EXCEPT !.threw = TRUE]
    ELSE [acc EXCEPT !.env = Put(acc.env, key, expanded.value)]

ParseMatch(acc, match, penv) ==
    IF ~match.some THEN acc
    ELSE StoreExpanded(acc, Trim(match.v.key),
                       ExpandBraces(StripQuotes(Trim(match.v.value)), acc.env, penv))

ParseTrimmedLine(acc, trimmedLine, penv) ==
    IF acc.threw THEN acc
    ELSE IF trimmedLine = EmptyStr \/ StartsWith(trimmedLine, <<"#">>) THEN acc
    ELSE ParseMatch(acc, KeyValueMatch(trimmedLine), penv)

\* One iteration of parseEnvFile's loop over the lines; acc is [threw, env].
ParseLine(acc, line, penv) == ParseTrimmedLine(acc, Trim(line), penv)

RECURSIVE ParseLines(_, _, _)
ParseLines(acc, lines, penv) ==
    IF lines = <<>> THEN acc
    ELSE ParseLines(ParseLine(acc, Head(lines), penv), Tail(lines), penv)

\* parseEnvFile(content): [threw |-> FALSE, env |-> the mapping], or threw.
parseEnvFile(content, penv) ==
    ParseLines([threw |-> FALSE, env |-> EmptyObject], SplitLines(content), penv)

\* An fs.FSWatcher on filePath.  The object has no property named path.
Watcher(filePath) == [file |-> filePath, open |-> TRUE, path |-> Undefined]

\* this.watchers.findIndex((w) => w.path === filePath), from 1; 0 when none.
FindWatcher(ws, filePath) ==
    IF \E i \in DOMAIN ws : ws[i].path = StrV(filePath)
    THEN CHOOSE i \in DOMAIN ws :
             ws[i].path = StrV(filePath) /\ \A j \in 1..(i - 1) : ws[j].path # StrV(filePath)
    ELSE 0

\* closeWatcher: close and splice out the watcher found for filePath, if any.
closeWatcher(ws, filePath) ==
    LET index == FindWatcher(ws, filePath)
    IN  IF index = 0 THEN ws
        ELSE SubSeq(ws, 1, index - 1) \o SubSeq(ws, index + 1, Len(ws))

setupWatcher(ws, filePath) == Append(closeWatcher(ws, filePath), Watcher(filePath))

\* The end of an iteration of readEnvFiles' loop that read and parsed file.
ReadParsed(file, autoReload, acc, parsed) ==
    IF parsed.threw THEN acc
    ELSE [env      |-> Assign(acc.env, parsed.env),
          cache    |-> Put(acc.cache, file, parsed.env),
          watchers |-> IF autoReload THEN setupWatcher(acc.watchers, file)
                       ELSE acc.watchers,
          used     |-> Append(acc.used, [file |-> file, vars |-> parsed.env])]

\* One iteration of readEnvFiles' loop.  acc carries env, this.envCache,
\* this.watchers and, per file, the mapping the file contributed (used).
\* Whatever throws inside the try block (process.cwd() on a host without
\* process, readFileSync, parseEnvFile) is caught and logged, and the loop
\* goes on with the next file.
ReadFileStep(disk, penv, file, autoReload, acc) ==
    IF ~penv.some THEN acc
    ELSE IF disk[file] = Absent THEN acc
    ELSE IF file \notin DOMAIN acc.cache \/ autoReload
    THEN IF disk[file] = Unreadable THEN acc
         ELSE ReadParsed(file, autoReload, acc, parseEnvFile(disk[file].text, penv))
    ELSE [acc EXCEPT !.env  = Assign(acc.env, acc.cache[file]),
                     !.used = Append(acc.used, [file |-> file, vars |-> acc.cache[file]])]

\* The loop without the catch of line 61, for comparison: the first file that
\* cannot be read ends the call, and the files after it are not read.
RECURSIVE ReadFilesLoopUncaught(_, _, _, _, _)
ReadFilesLoopUncaught(disk, penv, files, autoReload, acc) ==
    IF files = <<>> THEN acc
    ELSE IF /\ disk[Head(files)] = Unreadable
            /\ (Head(files) \notin DOMAIN acc.cache \/ autoReload)
    THEN acc
    ELSE ReadFilesLoopUncaught(disk, penv, Tail(files), autoReload,
                               ReadFileStep(disk, penv, Head(files), autoReload, acc))

RECURSIVE ReadFilesLoop(_, _, _, _, _)
ReadFilesLoop(disk, penv, files, autoReload, acc) ==
    IF files = <<>> THEN acc
    ELSE ReadFilesLoop(disk, penv, Tail(files), autoReload,
                       ReadFileStep(disk, penv, Head(files), autoReload, acc))

readEnvFiles(disk, penv, cache, ws, customPaths, excludePatterns, autoReload) ==
    ReadFilesLoop(disk, penv, getEnvFiles(customPaths, excludePatterns), autoReload,
                  [env |-> EmptyObject, cache |-> cache, watchers |-> ws, used |-> <<>>])

(***************************************************************************)
(* The runtime classifier (core/runtimeDetector.ts)                        *)
(***************************************************************************)
\* A host is the set of globals it defines.  The global process is defined
\* exactly when procEnv is not None; versions, bun and node are properties of
\* process.versions.
HostOf(globals) ==
    [g \in {"Deno", "versions", "bun", "node", "window", "document", "self",
            "addEventListener", "global"} |-> g \in globals]

NodeHost    == HostOf({"versions", "node", "global"})
BunHost     == HostOf({"versions", "bun", "node", "global", "self", "addEventListener"})
DenoHost    == HostOf({"Deno", "self", "addEventListener"})
BrowserHost == HostOf({"window", "document", "self", "addEventListener"})
EdgeHost    == HostOf({"self", "addEventListener"})
BareHost    == HostOf({})

detectRuntime(h, penv) ==
    IF h.Deno THEN "deno"
    ELSE IF penv.some /\ h.versions /\ h.bun THEN "bun"
    ELSE IF penv.some /\ h.versions /\ h.node THEN "node"
    ELSE IF h.window /\ h.document THEN "browser"
    ELSE IF h.self /\ h.addEventListener /\ ~h.window THEN "edge"
    ELSE "node"

isServer(runtime) == runtime # "browser" /\ runtime # "auto"

\* The process property of the object getGlobalObject returns: None when the
\* object has none, else [env |-> ...].
HostProcess(penv) == IF penv.some THEN Some([env |-> penv.v]) ELSE None

getGlobalObject(runtime, h, penv) ==
    CASE runtime \in {"node", "bun"} ->
             [process |-> IF h.global THEN HostProcess(penv) ELSE None]
      [] runtime = "browser" ->
             [process |-> IF h.window THEN HostProcess(penv) ELSE None]
      [] runtime = "deno" ->
             [process |-> IF h.Deno THEN Some([env |-> EmptyObject]) ELSE None]
      [] runtime = "edge" ->
             [process |-> IF h.self THEN HostProcess(penv) ELSE None]
      [] OTHER -> [process |-> None]

(***************************************************************************)
(* createEnv (core/createEnv.ts, and its second version)                   *)
(***************************************************************************)
\* A createEnv that takes config.runtime as a runtime whenever it is set,
\* "auto" included, for comparison.
ResolveRuntimeAsGiven(config, h, penv) ==
    IF ~config.runtime.some THEN detectRuntime(h, penv) ELSE config.runtime.v

\* config.runtime === "auto" || !config.runtime ? detectRuntime() : config.runtime
ResolveRuntime(config, h, penv) ==
    IF ~config.runtime.some \/ config.runtime.v = "auto"
    THEN detectRuntime(h, penv)
    ELSE config.runtime.v

\* A createEnv that skips the protected list.
FilterProtectedOff(env, isClient, protectedEnv) == env

\* Remove protected variables on client-side.
FilterProtected(env, isClient, protectedEnv) ==
    IF isClient /\ protectedEnv.some /\ Len(protectedEnv.v) > 0
    THEN Restrict(env, { k \in DOMAIN env : ~Includes(protectedEnv.v, k) })
    ELSE env

\* A string option is truthy when it is given and not empty.
Truthy(option) == option.some /\ option.v # EmptyStr

\* A createEnv that applies the public prefix on the server as well.
FilterPublicPrefixAnywhere(env, isClient, publicPrefix) ==
    IF publicPrefix.some /\ publicPrefix.v # EmptyStr
    THEN Restrict(env, { k \in DOMAIN env : StartsWith(k, publicPrefix.v) })
    ELSE env

\* On client, only include variables with the public prefix
\* (core/createEnv.ts: if (config.publicPrefix) { if (isClient) ... }).
FilterPublicPrefix(env, isClient, publicPrefix) ==
    IF Truthy(publicPrefix)
    THEN IF isClient
         THEN Restrict(env, { k \in DOMAIN env : StartsWith(k, publicPrefix.v) })
         ELSE env
    ELSE env

\* The second version: if (isClient && config.publicPrefix).
FilterPublicPrefix010(env, isClient, publicPrefix) ==
    IF isClient /\ Truthy(publicPrefix)
    THEN Restrict(env, { k \in DOMAIN env : StartsWith(k, publicPrefix.v) })
    ELSE env

\* A Record<string, string> seen as an object of JavaScript values.
AsValues(env) == [k \in DOMAIN env |-> StrV(env[k])]

\* What validate's result v leads to.  core/createEnv.ts, lines 89-109, reports
\* when !isValid && validationErrors.length > 0.
ReportCore(config, v) ==
    [failed |-> ~v.ok, errors |-> v.errors, typedEnv |-> v.typed,
     handlerCalled |-> ~v.ok /\ Len(v.errors) > 0 /\ config.onValidationError,
     threw |-> ~v.ok /\ Len(v.errors) > 0 /\ ~config.onValidationError]

\* The second version, lines 83-97, reports when !isValid.
Report010(config, v) ==
    [failed |-> ~v.ok, errors |-> v.errors, typedEnv |-> v.typed,
     handlerCalled |-> ~v.ok /\ config.onValidationError,
     threw |-> ~v.ok /\ ~config.onValidationError]

Report(variant, config, v) ==
    IF variant = "core/createEnv.ts" THEN ReportCore(config, v) ELSE Report010(config, v)

\* The validation step: with a schema, validate and report; without one,
\* typedEnv = filteredEnv.
ValidateStep(variant, config, filteredEnv) ==
    IF config.schema.some
    THEN Report(variant, config, validate(filteredEnv, config.schema.v))
    ELSE [failed |-> FALSE, errors |-> <<>>, typedEnv |-> AsValues(filteredEnv),
          handlerCalled |-> FALSE, threw |-> FALSE]

\* The public-prefix filter of the given version.
FilterPublic(variant, env, isClient, publicPrefix) ==
    IF variant = "core/createEnv.ts"
    THEN FilterPublicPrefix(env, isClient, publicPrefix)
    ELSE FilterPublicPrefix010(env, isClient, publicPrefix)

\* What a createEnv call leaves behind.  cache and watchers are the reader's
\* fields after the call, val the validation step's record.
CreateEnvOutcome(variant, runtime, isClient, read, loadedFiles, processEnv, filteredEnv, val) ==
    [called |-> TRUE, variant |-> variant,
     runtime |-> runtime, isClient |-> isClient,
     used |-> read.used,
     processEnv |-> processEnv, filteredEnv |-> filteredEnv,
     failed |-> val.failed, errors |-> val.errors,
     handlerCalled |-> val.handlerCalled,
     handlerErrors |-> IF val.handlerCalled THEN val.errors ELSE <<>>,
     threw |-> val.threw, returned |-> ~val.threw,
     result |-> IF val.threw THEN EmptyObject ELSE val.typedEnv,
     metadata |-> [isClient |-> isClient, runtime |-> runtime,
                   loadedFiles |-> loadedFiles],
     cache |-> read.cache, watchers |-> read.watchers]

\* Lines 50-123: the filters, the validation and the result.
CreateEnvFiltered(variant, config, runtime, isClient, read, loadedFiles, processEnv, filteredEnv) ==
    CreateEnvOutcome(variant, runtime, isClient, read, loadedFiles, processEnv, filteredEnv,
                     ValidateStep(variant, config, filteredEnv))

\* Lines 41-48: processEnv = { ...(globalObject.process?.env || {}), ...envVars }
CreateEnvMerged(variant, config, runtime, isClient, read, loadedFiles, processEnv) ==
    CreateEnvFiltered(variant, config, runtime, isClient, read, loadedFiles, processEnv,
                      FilterPublic(variant,
                                   FilterProtected(processEnv, isClient, config.protectedEnv),
                                   isClient, config.publicPrefix))

GlobalEnv(globalObject) ==
    IF globalObject.process.some THEN globalObject.process.v.env ELSE EmptyObject

\* Lines 23-39: the env files are read on the server side only.
CreateEnvRead(variant, config, runtime, isClient, globalObject, read) ==
    CreateEnvMerged(variant, config, runtime, isClient, read,
                    IF isClient THEN <<>>
                    ELSE IF config.paths.some THEN config.paths.v
                    ELSE [i \in DOMAIN defaultPatterns |-> defaultPatterns[i].pattern],
                    Assign(GlobalEnv(globalObject), read.env))

CreateEnvOn(variant, config, h, disk, penv, cache, ws, runtime) ==
    CreateEnvRead(variant, config, runtime, ~isServer(runtime),
                  getGlobalObject(runtime, h, penv),
                  IF isServer(runtime)
                  THEN readEnvFiles(disk, penv, cache, ws, config.paths, None,
                                    config.autoReload.some /\ config.autoReload.v)
                  ELSE [env |-> EmptyObject, cache |-> cache, watchers |-> ws,
                        used |-> <<>>])

\* createEnv(config), in the version named by variant: "core/createEnv.ts" or
\* "second version".
createEnv(variant, config, h, disk, penv, cache, ws) ==
    CreateEnvOn(variant, config, h, disk, penv, cache, ws,
                ResolveRuntime(config, h, penv))

(***************************************************************************)
(* createEnv of env.ts, with the helpers it imports from utils             *)
(***************************************************************************)
\* utils.detectRuntime: typeof window === 'undefined' ? 'node' : 'browser'
utilsDetectRuntime(h) == IF ~h.window THEN "node" ELSE "browser"

\* value.replace(/\\<letter>/g, char)
RECURSIVE ReplaceEscape(_, _, _)
ReplaceEscape(value, letter, char) ==
    IF Len(value) < 2 THEN value
    ELSE IF value[1] = "\\" /\ value[2] = letter
    THEN <<char>> \o ReplaceEscape(SubSeq(value, 3, Len(value)), letter, char)
    ELSE <<value[1]>> \o ReplaceEscape(Tail(value), letter, char)

\* Process escape sequences: \n, then \r, then \t.
ProcessEscapes(value) ==
    ReplaceEscape(ReplaceEscape(ReplaceEscape(value, "n", "\n"), "r", "\r"), "t", "\t")

\* One iteration of parseEnvContent's loop over the lines.
ParseContentLine(result, line) ==
    LET trimmedLine == Trim(line)
        match       == KeyValueMatch(trimmedLine)
    IN  IF trimmedLine = EmptyStr \/ StartsWith(trimmedLine, <<"#">>) THEN result
        ELSE IF ~match.some THEN result
        ELSE Put(result, Trim(match.v.key),
                 ProcessEscapes(StripQuotes(Trim(match.v.value))))

RECURSIVE ParseContentLines(_, _)
ParseContentLines(result, lines) ==
    IF lines = <<>> THEN result
    ELSE ParseContentLines(ParseContentLine(result, Head(lines)), Tail(lines))

parseEnvContent(content) == ParseContentLines(EmptyObject, SplitLines(content))

\* utils.inferType
inferType(value) ==
    IF ToLowerCase(value) \in {<<"t", "r", "u", "e">>, <<"f", "a", "l", "s", "e">>}
    THEN "boolean"
    ELSE IF ToNumber(value) # NaN /\ Trim(value) # EmptyStr THEN "number"
    ELSE "string"

\* utils.generateTypes: the members of interface Env and, with a public
\* prefix, of interface ClientEnv.
generateTypes(vs, config) ==
    [Env |-> [k \in DOMAIN vs |-> inferType(vs[k])],
     ClientEnv |-> IF Truthy(config.publicPrefix)
                   THEN Some([k \in { q \in DOMAIN vs : StartsWith(q, config.publicPrefix.v) }
                                 |-> inferType(vs[k])])
                   ELSE None]

\* A RegExp of config.exclude is given by the file patterns it matches.
RegExpTest(regex, pattern) == pattern \in regex.matches

envTsDefaultPatterns == <<".env", ".env.local", ".env.development", ".env.production">>

\* chokidar.watch(filePath) with its change callback registered.
ChokidarWatcher(filePath) == [file |-> filePath]

\* One iteration of the loop of env.ts readEnvFiles; acc is [envVars, watchers].
EnvTsReadStep(config, disk, pattern, acc) ==
    IF config.exclude.some /\ \E i \in DOMAIN config.exclude.v :
                                    RegExpTest(config.exclude.v[i], pattern)
    THEN acc
    ELSE IF disk[pattern] = Absent \/ disk[pattern] = Unreadable THEN acc
    ELSE [envVars  |-> Assign(acc.envVars, parseEnvContent(disk[pattern].text)),
          watchers |-> IF config.watch.some /\ config.watch.v
                       THEN Append(acc.watchers, ChokidarWatcher(pattern))
                       ELSE acc.watchers]

RECURSIVE EnvTsReadLoop(_, _, _, _)
EnvTsReadLoop(config, disk, patterns, acc) ==
    IF patterns = <<>> THEN acc
    ELSE EnvTsReadLoop(config, disk, Tail(patterns),
                       EnvTsReadStep(config, disk, Head(patterns), acc))

\* readEnvFiles of env.ts, called with the runtime already resolved and the
\* watcher list just emptied.  process.cwd() throws on a host without process.
envTsReadEnvFiles(config, runtime, disk, penv) ==
    IF runtime = "browser"
    THEN [threw |-> FALSE, envVars |-> EmptyObject, watchers |-> <<>>]
    ELSE IF ~penv.some
    THEN [threw |-> TRUE, envVars |-> EmptyObject, watchers |-> <<>>]
    ELSE LET acc == EnvTsReadLoop(config, disk,
                                  IF config.paths.some THEN config.paths.v
                                  ELSE envTsDefaultPatterns,
                                  [envVars |-> EmptyObject, watchers |-> <<>>])
         IN  [threw |-> FALSE, envVars |-> acc.envVars, watchers |-> acc.watchers]

\* organizeEnvStore, on the store createEnv has just reset.
organizeEnvStore(vs, config) ==
    [k \in DOMAIN vs |->
        [value |-> vs[k],
         type  |-> IF Truthy(config.publicPrefix)
                   THEN IF StartsWith(k, config.publicPrefix.v) THEN "client" ELSE "server"
                   ELSE IF config.protectedEnv.some /\ config.protectedEnv.v THEN "server"
                   ELSE "both"]]

\* What schema.parse(envVars) does, when there is a schema.
SchemaParse(config) ==
    IF config.schema.some THEN config.schema.v.parse
    ELSE [does |-> "return", value |-> EmptyObject, issues |-> <<>>, message |-> EmptyStr]

\* Lines 186-214 of createEnv: merged is envVars after process.env was
\* assigned over it, p what schema.parse does.
CreateEnvTsMerged(config, h, penv, oldTypes, currentRuntime, read, merged, p) ==
    [called |-> TRUE, variant |-> "env.ts", runtime |-> currentRuntime,
     processEnv |-> merged,
     failed |-> p.does # "return",
     errors |-> [i \in DOMAIN p.issues |-> ZodIssueError(p.issues[i])],
     handlerCalled |-> p.does = "throw ZodError" /\ config.onValidationError,
     handlerErrors |-> IF p.does = "throw ZodError" /\ config.onValidationError
                       THEN [i \in DOMAIN p.issues |-> ZodIssueError(p.issues[i])]
                       ELSE <<>>,
     logged |-> p.does = "throw ZodError" /\ ~config.onValidationError,
     threw |-> FALSE, returned |-> TRUE,
     store |-> organizeEnvStore(merged, config),
     watchers |-> read.watchers,
     types |-> IF utilsDetectRuntime(h) = "node" /\ penv.some
               THEN Some(generateTypes(merged, config)) ELSE oldTypes]

\* Lines 171-184: the store is reset and the watchers closed before the files
\* are read; an exception of readEnvFiles leaves them so.
CreateEnvTsRead(config, h, penv, oldTypes, currentRuntime, read) ==
    IF read.threw
    THEN [called |-> TRUE, variant |-> "env.ts", runtime |-> currentRuntime,
          processEnv |-> EmptyObject, failed |-> FALSE, errors |-> <<>>,
          handlerCalled |-> FALSE, handlerErrors |-> <<>>, logged |-> FALSE,
          threw |-> TRUE, returned |-> FALSE,
          store |-> EmptyObject, watchers |-> <<>>, types |-> oldTypes]
    ELSE CreateEnvTsMerged(config, h, penv, oldTypes, currentRuntime, read,
                           IF currentRuntime = "node" /\ penv.some
                           THEN Assign(read.envVars, penv.v) ELSE read.envVars,
                           SchemaParse(config))

CreateEnvTsOn(config, h, disk, penv, oldTypes, currentRuntime) ==
    CreateEnvTsRead(config, h, penv, oldTypes, currentRuntime,
                    envTsReadEnvFiles(config, currentRuntime, disk, penv))

\* createEnv of env.ts.  store, watchers and types are the new values of the
\* global store, the watcher list and the written type definitions.
createEnvTs(config, h, disk, penv, oldTypes) ==
    CreateEnvTsOn(config, h, disk, penv, oldTypes,
                  IF ~config.runtime.some \/ config.runtime.v = "auto"
                  THEN utilsDetectRuntime(h) ELSE config.runtime.v)

(***************************************************************************)
(* The guarded accessor of index.ts (createEnv, createProxy) with the      *)
(* adapter registry of adapters/index.ts, and the accessor of env.ts       *)
(* (createEnvProxy)                                                        *)
(***************************************************************************)
\* Properties every plain object inherits from Object.prototype; the in
\* operator and a property read find them.
ObjectPrototypeKeys ==
    { <<"c", "o", "n", "s", "t", "r", "u", "c", "t", "o", "r">>, <<"t", "o", "S", "t", "r", "i", "n", "g">>, <<"v", "a", "l", "u", "e", "O", "f">>, <<"h", "a", "s", "O", "w", "n", "P", "r", "o", "p", "e", "r", "t", "y">> }

\* prop in obj
In(prop, obj) == prop \in DOMAIN obj \/ prop \in ObjectPrototypeKeys

\* The Zod type of a schema field: z.string(), or z.string().optional().
ZString   == [optional |-> FALSE]
ZOptional == [optional |-> TRUE]

\* Properties found on a Zod type instance by the in operator.
ZodTypeKeys ==
    { <<"_", "d", "e", "f">>, <<"p", "a", "r", "s", "e">>, <<"s", "a", "f", "e", "P", "a", "r", "s", "e">>, <<"o", "p", "t", "i", "o", "n", "a", "l">> } \cup ObjectPrototypeKeys

\* z.object(shape).parse(data) on string data: keys outside the shape are
\* stripped, a field that is not optional and has no value is an issue.  The
\* issues of the ZodError are given as a set.
ZodObjectParse(shape, data) ==
    IF \A k \in DOMAIN shape : k \in DOMAIN data \/ shape[k].optional
    THEN [ok |-> TRUE, data |-> Restrict(data, DOMAIN shape), issues |-> {}]
    ELSE [ok |-> FALSE, data |-> EmptyObject,
          issues |-> { [path |-> <<k>>, message |-> "Required"] :
                         k \in { q \in DOMAIN shape : q \notin DOMAIN data /\ ~shape[q].optional } }]

\* The registry of adapters/index.ts: node, browser, next.
AdapterNames == { <<"n", "o", "d", "e">>, <<"b", "r", "o", "w", "s", "e", "r">>, <<"n", "e", "x", "t">> }

\* isServer() of NodeAdapter, BrowserAdapter and NextAdapter.
AdapterIsServer(name, h) ==
    CASE name = <<"n", "o", "d", "e">>    -> TRUE
      [] name = <<"b", "r", "o", "w", "s", "e", "r">> -> FALSE
      [] name = <<"n", "e", "x", "t">>    -> ~h.window

\* An adapter instance, given by what its isServer() returns.
AdapterInstance(server) == [threw |-> FALSE, isServer |-> server]

\* A custom EnvironmentAdapter object passed as config.adapter.
CustomAdapter(server) == [t |-> "object", isServer |-> server]

\* resolveAdapter(adapter): an adapter object is used as it is, a name is
\* looked up in lower case, anything else is detected from the host.
resolveAdapter(adapter, h, penv) ==
    IF adapter.t = "object" THEN AdapterInstance(adapter.isServer)
    ELSE IF adapter.t = "string"
    THEN IF ToLowerCase(adapter.v) \in AdapterNames
         THEN AdapterInstance(AdapterIsServer(ToLowerCase(adapter.v), h))
         ELSE [threw |-> TRUE, isServer |-> FALSE]
    ELSE IF penv.some /\ h.versions /\ h.node THEN AdapterInstance(TRUE)
    ELSE IF h.window /\ h.document THEN AdapterInstance(FALSE)
    ELSE AdapterInstance(TRUE)

\* A createEnv call of index.ts that ended with an exception.
IndexThrew(error, server, env, issues) ==
    [called |-> TRUE, variant |-> "index.ts", threw |-> TRUE, error |-> error,
     returned |-> FALSE, accessor |-> FALSE, isServer |-> server, env |-> env,
     target |-> EmptyObject, shape |-> EmptyObject, stored |-> None,
     handlerCalled |-> FALSE, issues |-> issues]

\* A createEnv call of index.ts that returned createProxy(target, activeSchema, ...).
IndexAccessor(server, env, target, activeShape, stored) ==
    [called |-> TRUE, variant |-> "index.ts", threw |-> FALSE, error |-> "",
     returned |-> TRUE, accessor |-> TRUE, isServer |-> server, env |-> env,
     target |-> target, shape |-> activeShape, stored |-> stored,
     handlerCalled |-> FALSE, issues |-> {}]

\* Lines 86-103: parsed is what activeSchema.parse(env) did.  The default
\* onValidationError throws a ValidationError; a handler of the caller returns
\* and createEnv returns what it returned (undefined here).
IndexValidated(config, server, env, activeShape, parsed) ==
    IF parsed.ok
    THEN IndexAccessor(server, env, parsed.data, activeShape, Some(parsed.data))
    ELSE IF config.onValidationError = "default"
    THEN IndexThrew("ValidationError", server, env, parsed.issues)
    ELSE [called |-> TRUE, variant |-> "index.ts", threw |-> FALSE, error |-> "",
          returned |-> TRUE, accessor |-> FALSE, isServer |-> server, env |-> env,
          target |-> EmptyObject, shape |-> activeShape, stored |-> None,
          handlerCalled |-> TRUE, issues |-> parsed.issues]

\* Lines 73-103, with the active schema chosen.
IndexActive(config, server, env, activeShape) ==
    IF config.skipValidation.some /\ config.skipValidation.v
    THEN IndexAccessor(server, env, env, activeShape, None)
    ELSE IndexValidated(config, server, env, activeShape, ZodObjectParse(activeShape, env))

\* Lines 57-73, with the adapter resolved: the schemas are combined, shared
\* first, and the adapter chooses between them.
IndexResolved(config, env, adapterInstance) ==
    IF adapterInstance.threw THEN IndexThrew("EnvSafeError", FALSE, EmptyObject, {})
    ELSE IndexActive(config, adapterInstance.isServer, env,
                     IF adapterInstance.isServer
                     THEN Assign(config.shared, config.server)
                     ELSE Assign(config.shared, config.client))

\* createEnv of index.ts.  runtimeEnv defaults to process.env, which is a
\* ReferenceError on a host without process; adapter defaults to "node".
createEnvIndex(config, h, penv) ==
    IF ~config.runtimeEnv.some /\ ~penv.some
    THEN IndexThrew("ReferenceError", FALSE, EmptyObject, {})
    ELSE IndexResolved(config,
                       IF config.runtimeEnv.some THEN config.runtimeEnv.v ELSE penv.v,
                       resolveAdapter(IF config.adapter.some THEN config.adapter.v
                                      ELSE StrV(<<"n", "o", "d", "e">>), h, penv))

\* What a property read did.
GetReturned(prop, value) ==
    [called |-> TRUE, prop |-> prop, does |-> "return", value |-> value,
     error |-> "", about |-> ""]

GetThrew(prop, error, about) ==
    [called |-> TRUE, prop |-> prop, does |-> "throw", value |-> Undefined,
     error |-> error, about |-> about]

\* target[prop]: an own entry, or what Object.prototype holds under that name.
TargetValue(target, prop) ==
    IF prop \in DOMAIN target THEN StrV(target[prop]) ELSE [t |-> "function"]

\* schema.shape?.server: the Zod type of a field named server, if the active
\* schema declares one.
ServerShape(shape) ==
    IF <<"s", "e", "r", "v", "e", "r">> \in DOMAIN shape THEN Some(shape[<<"s", "e", "r", "v", "e", "r">>]) ELSE None

\* The get trap of createProxy, for a string prop.  The default
\* onInvalidAccess throws an EnvSafeError; a handler of the caller returns
\* undefined here.
createProxyGet(target, shape, server, onInvalidAccess, prop) ==
    IF ~In(prop, target)
    THEN IF onInvalidAccess = "default"
         THEN GetThrew(prop, "EnvSafeError", "does not exist")
         ELSE GetReturned(prop, Undefined)
    ELSE IF ~server /\ ServerShape(shape).some /\ prop \in ZodTypeKeys
    THEN GetThrew(prop, "EnvSafeError", "server-only")
    ELSE GetReturned(prop, TargetValue(target, prop))

\* The conversion at the end of createEnvProxy's get trap.
ProxyValue(value) ==
    IF ToLowerCase(value) = <<"t", "r", "u", "e">> THEN BoolV(TRUE)
    ELSE IF ToLowerCase(value) = <<"f", "a", "l", "s", "e">> THEN BoolV(FALSE)
    ELSE IF ToNumber(value) # NaN /\ Trim(value) # EmptyStr THEN ToNumber(value)
    ELSE StrV(value)

\* The get trap of createEnvProxy (env.ts), for a string prop.  envStore[prop]
\* of a name inherited from Object.prototype is a function: it has no type and
\* no value, and value.toLowerCase() is a TypeError.
createEnvProxyGet(store, runtime, prop) ==
    IF prop \in DOMAIN store
    THEN IF store[prop].type = "server" /\ runtime = "browser"
         THEN GetThrew(prop, "Error", "server-side")
         ELSE GetReturned(prop, ProxyValue(store[prop].value))
    ELSE IF prop \in ObjectPrototypeKeys THEN GetThrew(prop, "TypeError", "")
    ELSE GetReturned(prop, Undefined)

(***************************************************************************)
(* The framework adapters: adapters/vite.ts, next.ts, nextjs.ts,           *)
(* express.ts and edge.ts.  Each calls createEnv of core/createEnv.ts with *)
(* its options and filters the result for the client.                      *)
(***************************************************************************)
METADATA == <<"_", "m", "e", "t", "a", "d", "a", "t", "a">>

\* The object createEnv returns: the typed entries and _metadata.
EnvObject(out) == Put(out.result, METADATA, [t |-> "object", v |-> out.metadata])

\* env[key], for a key that key in env finds.
Lookup(env, key) == IF key \in DOMAIN env THEN env[key] ELSE [t |-> "function"]

RECURSIVE JSONEscape(_)
JSONEscape(str) ==
    IF str = EmptyStr THEN EmptyStr
    ELSE (IF Head(str) \in {"\"", "\\"} THEN <<"\\", Head(str)>>
          ELSE IF Head(str) = "\n" THEN <<"\\", "n">>
          ELSE <<Head(str)>>) \o JSONEscape(Tail(str))

\* JSON.stringify(value): the text of a string value; any other value is kept,
\* tagged.
JSONStringify(value) ==
    IF value.t = "string" THEN StrV(<<"\"">> \o JSONEscape(value.v) \o <<"\"">>)
    ELSE [t |-> "json", of |-> value]

\* The script an adapter sends: `<global> = ${JSON.stringify(publicEnv)};`,
\* given by the global it assigns and the object it serialises.
Script(global, publicEnv) == [global |-> global, json |-> publicEnv]

\* What an adapter holds after it was called.
AdapterCall(adapter, out, publicEnv, returned) ==
    [called |-> TRUE, adapter |-> adapter, threw |-> out.threw,
     env |-> EnvObject(out), publicEnv |-> publicEnv, returned |-> returned]

ImportMetaEnv == <<"i", "m", "p", "o", "r", "t", ".", "m", "e", "t", "a", ".", "e", "n", "v", ".">>

\* `import.meta.env.${key}`
ViteDefineKey(key) == ImportMetaEnv \o key

\* vite.ts, lines 35-52: the keys of env that pass the filter.
VitePublicKeys(options, env, vitePrefix) ==
    { key \in DOMAIN env :
        /\ key # METADATA
        /\ \/ StartsWith(key, vitePrefix)
           \/ /\ ~Truthy(options.publicPrefix)
              /\ ~options.protectedEnv.some \/ ~Includes(options.protectedEnv.v, key) }

\* vite.ts, lines 61-64
ViteDefine(publicEnv) ==
    [d \in { ViteDefineKey(key) : key \in DOMAIN publicEnv } |->
        JSONStringify(publicEnv[SubSeq(d, Len(ImportMetaEnv) + 1, Len(d))])]

\* vite.ts, lines 55-73: publicEnv is replaced and the config returned with
\* the define entries added over its own.
ViteConfigWith(config, publicEnv) ==
    [publicEnv |-> publicEnv,
     returned |-> [define |-> Assign(IF config.define.some THEN config.define.v
                                     ELSE EmptyObject,
                                     ViteDefine(publicEnv))]]

\* The config hook of the plugin mrenvVite(options) returns.
mrenvViteConfig(options, env, config) ==
    ViteConfigWith(config,
                   Restrict(env, VitePublicKeys(options, env,
                                                IF Truthy(options.viteEnvPrefix)
                                                THEN options.viteEnvPrefix.v
                                                ELSE <<"V", "I", "T", "E", "_">>)))

\* next.ts, lines 30-51: the keys of env withSuperenv exposes.
NextPublicKeys(options, env) ==
    { key \in DOMAIN env :
        /\ key # METADATA
        /\ IF Truthy(options.publicPrefix) THEN StartsWith(key, options.publicPrefix.v)
           ELSE IF options.protectedEnv.some THEN ~Includes(options.protectedEnv.v, key)
           ELSE ~(options.exposeToClient.some /\ ~options.exposeToClient.v) }

\* nextConfig.env || {}
NextConfigEnv(nextConfig) == IF nextConfig.env.some THEN nextConfig.env.v ELSE EmptyObject

\* next.ts, lines 54-78
NextConfigWith(nextConfig, env, publicEnv) ==
    [publicEnv |-> publicEnv,
     returned |-> [env |-> Assign(NextConfigEnv(nextConfig), publicEnv),
                   serverRuntimeConfig |-> [_superenv |-> env],
                   publicRuntimeConfig |-> [_superenv |-> publicEnv]]]

\* withSuperenv(nextConfig, options), env being what createEnv(options) returned.
withSuperenv(nextConfig, options, env) ==
    NextConfigWith(nextConfig, env, Restrict(env, NextPublicKeys(options, env)))

\* withMrenv(options), env being what createEnv(options) returned.
withMrenv(options, env) ==
    [publicEnv |-> env,
     returned |-> [env |-> Assign(NextConfigEnv(options.nextConfig), env)]]

\* options.exposeKeys || []
ExposeKeys(options) == IF options.exposeKeys.some THEN options.exposeKeys.v ELSE <<>>

\* superenvExpress, lines 28-34: the keys listed whose env[key] is defined.
superenvExpressPublicEnv(options, env) ==
    [key \in { ExposeKeys(options)[i] : i \in { j \in DOMAIN ExposeKeys(options) :
                                                   In(ExposeKeys(options)[j], env) } }
        |-> Lookup(env, key)]

\* The middleware of superenvExpress serving a request.
superenvExpressRequest(env, publicEnv, path) ==
    [called |-> TRUE, hook |-> "superenvExpress request", reqEnv |-> env,
     sent |-> IF path = "/_superenv.js" THEN Some(Script("window.env", publicEnv))
              ELSE None,
     next |-> path # "/_superenv.js"]

\* mrenvExpress, lines 84-100
mrenvExpressPublicEnv(options, env) ==
    IF Len(ExposeKeys(options)) > 0
    THEN [key \in { ExposeKeys(options)[i] : i \in { j \in DOMAIN ExposeKeys(options) :
                        /\ In(ExposeKeys(options)[j], env)
                        /\ ExposeKeys(options)[j] # METADATA } }
            |-> Lookup(env, key)]
    ELSE IF Truthy(options.publicPrefix)
    THEN Restrict(env, { key \in DOMAIN env :
                           key # METADATA /\ StartsWith(key, options.publicPrefix.v) })
    ELSE EmptyObject

\* The middleware of mrenvExpress serving a request: res.locals and next().
mrenvExpressRequest(env, publicEnv) ==
    [called |-> TRUE, hook |-> "mrenvExpress request",
     locals |-> [env |-> env, publicEnv |-> publicEnv,
                 getEnvScript |-> Script("window.ENV", publicEnv)],
     next |-> TRUE]

\* edge.ts, lines 43-58: the keys of env the middleware exposes.
EdgePublicKeys(options, env) ==
    { key \in DOMAIN env :
        /\ key # METADATA
        /\ IF Truthy(options.publicPrefix) THEN StartsWith(key, options.publicPrefix.v)
           ELSE IF options.protectedEnv.some THEN ~Includes(options.protectedEnv.v, key)
           ELSE TRUE }

\* The middleware of superenvEdgeMiddleware serving a request: a Response with
\* the script, or null.
superenvEdgeRequest(options, env, pathname) ==
    [called |-> TRUE, hook |-> "superenvEdgeMiddleware request",
     response |-> IF pathname = "/_superenv.js"
                     /\ options.exposeToClient.some /\ options.exposeToClient.v
                  THEN Some(Script("self.env", Restrict(env, EdgePublicKeys(options, env))))
                  ELSE None]

(***************************************************************************)
(* SpecValidate: SchemaValidator.validate applied to the inputs above      *)
(***************************************************************************)
NotCalled == [called |-> FALSE]

\* const adapters = { node: NodeAdapter, browser: BrowserAdapter, next: NextAdapter }
BuiltInAdapters == [name \in AdapterNames |-> [class |-> name]]

\* Every file name the reader can be asked for.
AllFiles == { defaultPatterns[i].pattern : i \in DOMAIN defaultPatterns }

\* The parts of the program a specification does not exercise stay as they
\* are after construction: an empty directory, an empty cache, no watcher.
ValidatorIdle ==
    /\ valIn = NotCalled
    /\ valOut = NotCalled
    /\ parIn = NotCalled
    /\ parOut = NotCalled
    /\ registry = BuiltInAdapters

ReaderIdle ==
    /\ fs = [f \in AllFiles |-> Absent]
    /\ procEnv = Some(EmptyObject)
    /\ envCache = EmptyObject
    /\ watchers = <<>>
    /\ readOut = NotCalled

EnvIdle ==
    /\ host = NodeHost
    /\ envIn = NotCalled
    /\ envOut = NotCalled
    /\ envStore = EmptyObject
    /\ storeWatchers = <<>>
    /\ typesFile = None
    /\ getOut = NotCalled
    /\ adOut = NotCalled
    /\ adHook = NotCalled

InitValidate ==
    /\ valIn \in ValidateInputs
    /\ valOut = NotCalled
    /\ parIn = NotCalled
    /\ parOut = NotCalled
    /\ registry = BuiltInAdapters
    /\ ReaderIdle
    /\ EnvIdle

Validate ==
    /\ ~valOut.called
    /\ \E r \in {validate(valIn.env, valIn.schema)} :
           valOut' = [called |-> TRUE, ok |-> r.ok, errors |-> r.errors,
                      typed |-> r.typed, parseArg |-> r.parseArg]
    /\ UNCHANGED <<valIn, parIn, parOut, registry, readerVars, envVars>>

NextValidate == Validate

SpecValidate == InitValidate /\ [][NextValidate]_vars

(***************************************************************************)
(* SpecReader: EnvReader.readEnvFiles called again and again on a working  *)
(* directory whose env files are created, rewritten and removed            *)
(***************************************************************************)
X == <<"X">>
Y == <<"Y">>
H == <<"H">>

\* The files the directory may hold, each with a letter of its own, so that a
\* resolved value tells which file it came from.
ReaderFiles == {".env.local", ".env.development.local", ".env.development", ".env"}

FileTag(file) ==
    CASE file = ".env.local"             -> "l"
      [] file = ".env.development.local" -> "m"
      [] file = ".env.development"       -> "d"
      [] file = ".env"                   -> "e"

\* X=<tag>
FirstText(file) == <<"X", "=", FileTag(file)>>

\* X=<tag>2
\* # note
\* Y = "${X}${H}"
SecondText(file) ==
    <<"X", "=", FileTag(file), "2", "\n", "#", " ", "n", "o", "t", "e", "\n",
      "Y", " ", "=", " ", "\"", "$", "{", "X", "}", "$", "{", "H", "}", "\"">>

\* The states a file can be in, numbered.
FileState(file, n) ==
    CASE n = 0 -> Absent
      [] n = 1 -> File(FirstText(file))
      [] n = 2 -> File(SecondText(file))
      [] n = 3 -> Unreadable

\* .env.local, read first, goes through every state; the other files are
\* absent or hold their first text.
LastState(file) == IF file = ".env.local" THEN 3 ELSE 1

FileStates(file) == { FileState(file, n) : n \in 0..LastState(file) }

\* The directories over the files of ReaderFiles.
Directories ==
    { [f \in AllFiles |-> IF f \in ReaderFiles THEN FileState(f, d[f]) ELSE Absent] :
        d \in { e \in [ReaderFiles -> 0..3] : \A f \in ReaderFiles : e[f] <= LastState(f) } }

ReaderProcEnv == [k \in {H} |-> <<"h">>]

ReaderPaths == {None, Some(<<".env.local", ".env">>)}

ReaderExcludes == {None, Some(<<".env.local">>)}

InitReader ==
    /\ ValidatorIdle
    /\ fs \in Directories
    /\ procEnv = Some(ReaderProcEnv)
    /\ envCache = EmptyObject
    /\ watchers = <<>>
    /\ readOut = NotCalled
    /\ EnvIdle

\* envReader.readEnvFiles(customPaths, excludePatterns, autoReload)
ReadEnvFilesCall(customPaths, excludePatterns, autoReload) ==
    /\ \E r \in {readEnvFiles(fs, procEnv, envCache, watchers,
                              customPaths, excludePatterns, autoReload)} :
           /\ envCache' = r.cache
           /\ watchers' = r.watchers
           /\ readOut' = [called |-> TRUE, customPaths |-> customPaths,
                          excludePatterns |-> excludePatterns,
                          autoReload |-> autoReload, env |-> r.env, used |-> r.used]
    /\ UNCHANGED <<fs, procEnv, valVars, envVars>>

\* Something outside the program creates, rewrites, locks or removes a file.
WriteFile(file, state) ==
    /\ state # fs[file]
    /\ fs' = [fs EXCEPT ![file] = state]
    /\ UNCHANGED <<procEnv, envCache, watchers, readOut, valVars, envVars>>

ReadAny == \E cp \in ReaderPaths, ex \in ReaderExcludes : ReadEnvFilesCall(cp, ex, FALSE)

WriteAny == \E f \in ReaderFiles : \E st \in FileStates(f) : WriteFile(f, st)

NextReader == ReadAny \/ WriteAny

SpecReader == InitReader /\ [][NextReader]_vars

(***************************************************************************)
(* SpecCreateEnv: one createEnv call (either version of core/createEnv.ts, *)
(* or env.ts) on a host, a directory, an ambient environment and a         *)
(* configuration                                                           *)
(***************************************************************************)
PUB_  == <<"P", "U", "B", "_">>
PUB_A == <<"P", "U", "B", "_", "A">>
PUB_S == <<"P", "U", "B", "_", "S">>
DB    == <<"D", "B">>

\* The ambient environments: every subset of the three keys.
AmbientValue(key) == <<"a", "m", "b">> \o key

Ambients == { [k \in ks |-> AmbientValue(k)] : ks \in SUBSET {PUB_A, PUB_S, DB} }

\* DB=f
\* PUB_S="s"
DotEnvText ==
    <<"D", "B", "=", "f", "\n", "P", "U", "B", "_", "S", "=", "\"", "s", "\"">>

EmptyDirectory == [f \in AllFiles |-> Absent]

DotEnvDirectory == [EmptyDirectory EXCEPT ![".env"] = File(DotEnvText)]

FullAmbient == [k \in {PUB_A, PUB_S, DB} |-> AmbientValue(k)]

\* A host with the ambient environment its process carries, if it has one.
Worlds ==
    { [host |-> h, procEnv |-> Some(a)] : h \in {NodeHost, BrowserHost, EdgeHost}, a \in Ambients }
    \cup { [host |-> h, procEnv |-> Some(FullAmbient)] : h \in {BunHost, DenoHost} }
    \cup { [host |-> h, procEnv |-> None] : h \in {DenoHost, BrowserHost, EdgeHost, BareHost} }

FewWorlds ==
    { [host |-> NodeHost, procEnv |-> Some(FullAmbient)],
      [host |-> BrowserHost, procEnv |-> Some(FullAmbient)],
      [host |-> BrowserHost, procEnv |-> None],
      [host |-> EdgeHost, procEnv |-> None] }

Runtimes == {None} \cup { Some(r) : r \in {"auto", "node", "bun", "deno", "edge", "browser"} }

ProtectedLists == {None, Some(<<>>), Some(<<PUB_S>>), Some(<<DB, PUB_S>>)}

PublicPrefixes == {None, Some(EmptyStr), Some(PUB_)}

\* The schemas of the createEnv runs: descriptor tables over DB and PUB_A, and
\* the external schemas.
CreateEnvSchemas ==
    { DescriptorTable(<<[key |-> DB, def |-> d]>>) :
        d \in { e \in Descriptors : e.validate = "none" /\ e.type \in {"string", "number"} } }
    \cup { DescriptorTable(<<[key |-> PUB_A, def |-> d], [key |-> DB, def |-> d]>>) :
             d \in { e \in Descriptors : e.validate = "none" /\ e.type = "string"
                                          /\ e.default = Undefined } }
    \cup { ExternalSchema(b) : b \in ParseBehaviours }

CoreConfig(runtime, protectedEnv, publicPrefix, schema, paths, handler, autoReload) ==
    [kind |-> "CreateEnvConfig", runtime |-> runtime, protectedEnv |-> protectedEnv,
     publicPrefix |-> publicPrefix, schema |-> schema, paths |-> paths,
     onValidationError |-> handler, autoReload |-> autoReload]

Run(world, disk, config) == [world |-> world, disk |-> disk, config |-> config]

\* Runs about the filters: every runtime on every world, no schema.
FilterRun(run) ==
    \E w \in Worlds, d \in {EmptyDirectory, DotEnvDirectory}, rt \in Runtimes,
       pe \in ProtectedLists, pp \in PublicPrefixes :
        run = Run(w, d, CoreConfig(rt, pe, pp, None, None, FALSE, None))

\* Runs about validation: a schema, with and without a handler.
ValidationRun(run) ==
    \E w \in FewWorlds, rt \in {None, Some("browser")},
       pe \in {None, Some(<<DB, PUB_S>>)}, pp \in {None, Some(PUB_)},
       sc \in CreateEnvSchemas, hd \in BOOLEAN,
       pa \in {None, Some(<<".env">>)}, ar \in {None, Some(FALSE)} :
        run = Run(w, DotEnvDirectory, CoreConfig(rt, pe, pp, Some(sc), pa, hd, ar))

TsConfig(runtime, protectedEnv, publicPrefix, schema, paths, exclude, handler, watch) ==
    [kind |-> "EnvConfig", runtime |-> runtime, protectedEnv |-> protectedEnv,
     publicPrefix |-> publicPrefix, schema |-> schema, paths |-> paths,
     exclude |-> exclude, onValidationError |-> handler, watch |-> watch]

\* The paths, exclude and watch options of the env.ts runs.
TsFileOptions ==
    { [paths |-> None, exclude |-> None, watch |-> None],
      [paths |-> None, exclude |-> None, watch |-> Some(TRUE)],
      [paths |-> Some(<<".env.local", ".env">>), exclude |-> Some(<<[matches |-> {".env.local"}]>>),
       watch |-> Some(TRUE)] }

\* Runs of env.ts createEnv.
TsRun(run) ==
    \E w \in FewWorlds, rt \in {None, Some("auto"), Some("node"), Some("browser")},
       pe \in {None, Some(TRUE)}, pp \in {None, Some(PUB_)},
       sc \in {None} \cup { Some(ExternalSchema(b)) : b \in ParseBehaviours },
       fo \in TsFileOptions, hd \in BOOLEAN :
        run = Run(w, DotEnvDirectory,
                  TsConfig(rt, pe, pp, sc, fo.paths, fo.exclude, hd, fo.watch))

InitCreateEnv ==
    /\ ValidatorIdle
    /\ FilterRun(envIn) \/ ValidationRun(envIn) \/ TsRun(envIn)
    /\ host = envIn.world.host
    /\ procEnv = envIn.world.procEnv
    /\ fs = envIn.disk
    /\ envCache = EmptyObject
    /\ watchers = <<>>
    /\ readOut = NotCalled
    /\ envOut = NotCalled
    /\ envStore = EmptyObject
    /\ storeWatchers = <<>>
    /\ typesFile = None
    /\ getOut = NotCalled
    /\ adOut = NotCalled
    /\ adHook = NotCalled

\* The fields of a call's outcome that envOut records.
CallRecord(out) ==
    [f \in DOMAIN out \ {"cache", "watchers", "store", "types"} |-> out[f]]

\* createEnv(config) of core/createEnv.ts or of its second version.
CreateEnvCall(variant) ==
    /\ ~envOut.called
    /\ envIn.config.kind = "CreateEnvConfig"
    /\ \E out \in {createEnv(variant, envIn.config, host, fs, procEnv, envCache, watchers)} :
           /\ envOut' = CallRecord(out)
           /\ envCache' = out.cache
           /\ watchers' = out.watchers
    /\ UNCHANGED <<valVars, fs, procEnv, readOut, host, envIn,
                   envStore, storeWatchers, typesFile, getOut,
                   adOut, adHook>>

CreateEnvCore == \E variant \in {"core/createEnv.ts", "second version"} : CreateEnvCall(variant)

\* createEnv(config) of env.ts
CreateEnvTs ==
    /\ ~envOut.called
    /\ envIn.config.kind = "EnvConfig"
    /\ \E out \in {createEnvTs(envIn.config, host, fs, procEnv, typesFile)} :
           /\ envOut' = CallRecord(out)
           /\ envStore' = out.store
           /\ storeWatchers' = out.watchers
           /\ typesFile' = out.types
    /\ UNCHANGED <<valVars, readerVars, host, envIn, getOut, adOut, adHook>>

NextCreateEnv == CreateEnvCore \/ CreateEnvTs

SpecCreateEnv == InitCreateEnv /\ [][NextCreateEnv]_vars

(***************************************************************************)
(* SpecAccessor: an accessor is created, by createEnv of index.ts or by    *)
(* createEnv of env.ts, and properties are read through it                 *)
(***************************************************************************)
SECRET == <<"S", "E", "C", "R", "E", "T">>
API    == <<"A", "P", "I">>
MODE   == <<"M", "O", "D", "E">>
NOPE   == <<"N", "O", "P", "E">>

\* The server, client and shared schemas of the index.ts runs.  SECRET is
\* declared by the server schema only.
IndexSchemas ==
    { [server |-> EmptyObject, client |-> EmptyObject, shared |-> EmptyObject],
      [server |-> [k \in {SECRET} |-> ZString], client |-> EmptyObject,
       shared |-> EmptyObject],
      [server |-> [k \in {SECRET} |-> ZString], client |-> [k \in {API} |-> ZOptional],
       shared |-> [k \in {MODE} |-> ZOptional]],
      [server |-> [k \in {SECRET} |-> ZOptional],
       client |-> [k \in {API, <<"s", "e", "r", "v", "e", "r">>} |-> IF k = API THEN ZString ELSE ZOptional],
       shared |-> EmptyObject] }

RawValue(key) == <<"r", "a", "w">> \o key

\* The runtimeEnv option: not given, or a mapping over some of these keys.
RuntimeEnvs ==
    {None} \cup { Some([k \in ks |-> RawValue(k)]) : ks \in SUBSET {SECRET, API, <<"_", "d", "e", "f">>} }

\* The adapter option: not given, a name, null, or an adapter object.
AdapterChoices ==
    {None, Some(Null), Some(CustomAdapter(TRUE)), Some(CustomAdapter(FALSE))}
    \cup { Some(StrV(n)) : n \in {<<"n", "o", "d", "e">>, <<"b", "r", "o", "w", "s", "e", "r">>, <<"B", "r", "o", "w", "s", "e", "r">>, <<"n", "e", "x", "t">>, <<"v", "i", "t", "e">>} }

IndexWorlds ==
    { [host |-> NodeHost, procEnv |-> Some([k \in {SECRET, API} |-> RawValue(k)])],
      [host |-> BrowserHost, procEnv |-> None] }

IndexConfig(schemas, runtimeEnv, skipValidation, adapter, handlers) ==
    [kind |-> "EnvSafeOptions", server |-> schemas.server, client |-> schemas.client,
     shared |-> schemas.shared, runtimeEnv |-> runtimeEnv,
     skipValidation |-> skipValidation, adapter |-> adapter,
     onValidationError |-> handlers, onInvalidAccess |-> handlers]

\* Runs of createEnv of index.ts; the handlers are the defaults or the caller's.
IndexRun(run) ==
    \E w \in IndexWorlds, sc \in IndexSchemas, re \in RuntimeEnvs,
       sk \in {None, Some(TRUE)}, ad \in AdapterChoices, hd \in {"default", "custom"} :
        run = Run(w, EmptyDirectory, IndexConfig(sc, re, sk, ad, hd))

\* Runs of createEnv of env.ts whose accessor is read afterwards.
TsAccessorRun(run) ==
    \E w \in FewWorlds, rt \in {None, Some("node"), Some("browser")},
       pe \in {None, Some(TRUE)}, pp \in {None, Some(PUB_)} :
        run = Run(w, DotEnvDirectory, TsConfig(rt, pe, pp, None, None, None, FALSE, None))

InitAccessor ==
    /\ ValidatorIdle
    /\ IndexRun(envIn) \/ TsAccessorRun(envIn)
    /\ host = envIn.world.host
    /\ procEnv = envIn.world.procEnv
    /\ fs = envIn.disk
    /\ envCache = EmptyObject
    /\ watchers = <<>>
    /\ readOut = NotCalled
    /\ envOut = NotCalled
    /\ envStore = EmptyObject
    /\ storeWatchers = <<>>
    /\ typesFile = None
    /\ getOut = NotCalled
    /\ adOut = NotCalled
    /\ adHook = NotCalled

\* createEnv(config) of index.ts
CreateEnvIndex ==
    /\ ~envOut.called
    /\ envIn.config.kind = "EnvSafeOptions"
    /\ envOut' = createEnvIndex(envIn.config, host, procEnv)
    /\ UNCHANGED <<valVars, readerVars, host, envIn, envStore, storeWatchers,
                   typesFile, getOut, adOut, adHook>>

\* The properties read through the accessors.
Props == {SECRET, API, MODE, NOPE, DB, PUB_A, PUB_S, <<"_", "d", "e", "f">>, <<"t", "o", "S", "t", "r", "i", "n", "g">>}

\* env[prop] on the accessor createEnv of index.ts returned
GetIndex(prop) ==
    /\ envOut.called
    /\ envOut.variant = "index.ts"
    /\ envOut.accessor
    /\ getOut' = createProxyGet(envOut.target, envOut.shape, envOut.isServer,
                                envIn.config.onInvalidAccess, prop)
    /\ UNCHANGED <<valVars, readerVars, host, envIn, envOut, envStore,
                   storeWatchers, typesFile, adOut, adHook>>

\* env[prop] on the accessor createEnv of env.ts returned
GetTs(prop) ==
    /\ envOut.called
    /\ envOut.variant = "env.ts"
    /\ envOut.returned
    /\ getOut' = createEnvProxyGet(envStore, envOut.runtime, prop)
    /\ UNCHANGED <<valVars, readerVars, host, envIn, envOut, envStore,
                   storeWatchers, typesFile, adOut, adHook>>

GetAny == \E prop \in Props : GetIndex(prop) \/ GetTs(prop)

NextAccessor == CreateEnvIndex \/ CreateEnvTs \/ GetAny

SpecAccessor == InitAccessor /\ [][NextAccessor]_vars

(***************************************************************************)
(* SpecAdapters: a framework adapter is called with its options on a Node  *)
(* host, and the hook or middleware it returns is run                      *)
(***************************************************************************)
VITE_K == <<"V", "I", "T", "E", "_", "K">>
EXTRA  == <<"E", "X", "T", "R", "A">>

\* process.env of the adapter runs.
AdapterAmbient == [k \in {DB, PUB_A, PUB_S, VITE_K} |-> AmbientValue(k)]

AdapterWorld == [host |-> NodeHost, procEnv |-> Some(AdapterAmbient)]

\* The options every adapter hands to createEnv, with the adapter's own.
AdapterOptions(runtime, protectedEnv, publicPrefix, own) ==
    own @@ [kind |-> "adapter options", runtime |-> runtime,
            protectedEnv |-> protectedEnv, publicPrefix |-> publicPrefix,
            schema |-> None, paths |-> None, onValidationError |-> FALSE,
            autoReload |-> None]

NoNextConfig == [env |-> None]

\* The adapters with the options that are their own.
OwnOptions ==
    { [adapter |-> "mrenvVite", viteEnvPrefix |-> vp] : vp \in {None, Some(PUB_)} }
    \cup { [adapter |-> "withSuperenv", exposeToClient |-> ec, nextConfig |-> nc] :
             ec \in {None, Some(FALSE), Some(TRUE)},
             nc \in {NoNextConfig, [env |-> Some([k \in {EXTRA} |-> StrV(<<"o">>)])]} }
    \cup { [adapter |-> "withMrenv", nextConfig |-> nc] :
             nc \in {NoNextConfig, [env |-> Some([k \in {EXTRA} |-> StrV(<<"o">>)])]} }
    \cup { [adapter |-> ad, exposeKeys |-> ek] :
             ad \in {"superenvExpress", "mrenvExpress"},
             ek \in {None, Some(<<>>), Some(<<DB>>), Some(<<PUB_A, METADATA, NOPE>>)} }
    \cup { [adapter |-> "superenvEdgeMiddleware", exposeToClient |-> ec] :
             ec \in {None, Some(FALSE), Some(TRUE)} }

\* Runs of the adapters.
AdapterRun(run) ==
    \E rt \in {None, Some("browser")},
       pe \in {None, Some(<<>>), Some(<<DB, PUB_S>>), Some(<<VITE_K>>)},
       pp \in {None, Some(PUB_)}, own \in OwnOptions :
        run = Run(AdapterWorld, DotEnvDirectory, AdapterOptions(rt, pe, pp, own))

InitAdapters ==
    /\ ValidatorIdle
    /\ AdapterRun(envIn)
    /\ host = envIn.world.host
    /\ procEnv = envIn.world.procEnv
    /\ fs = envIn.disk
    /\ envCache = EmptyObject
    /\ watchers = <<>>
    /\ readOut = NotCalled
    /\ envOut = NotCalled
    /\ envStore = EmptyObject
    /\ storeWatchers = <<>>
    /\ typesFile = None
    /\ getOut = NotCalled
    /\ adOut = NotCalled
    /\ adHook = NotCalled

\* What the createEnv call an adapter starts with leaves behind, out being
\* its outcome.
AdapterCreateEnv(out) ==
    /\ envOut' = CallRecord(out)
    /\ envCache' = out.cache
    /\ watchers' = out.watchers
    /\ UNCHANGED <<valVars, fs, procEnv, readOut, host, envIn, envStore,
                   storeWatchers, typesFile, getOut, adHook>>

\* The adapter named was not called yet.
AdapterToCall(adapter) == ~adOut.called /\ envIn.config.adapter = adapter

\* The adapter named was called and returned.
AdapterCalled(adapter) == adOut.called /\ adOut.adapter = adapter /\ ~adOut.threw

\* A hook or a request is served: nothing but adOut and adHook changes.
HookFrame == UNCHANGED <<valVars, readerVars, host, envIn, envOut, envStore,
                         storeWatchers, typesFile, getOut>>

\* mrenvVite(options)
MrenvVite ==
    /\ AdapterToCall("mrenvVite")
    /\ \E out \in {createEnv("core/createEnv.ts", envIn.config, host, fs, procEnv,
                             envCache, watchers)} :
           /\ AdapterCreateEnv(out)
           /\ adOut' = AdapterCall("mrenvVite", out, EmptyObject, None)

\* The Vite configurations handed to the config hook.
ViteConfigs == { [define |-> None], [define |-> Some([k \in {EXTRA} |-> StrV(<<"1">>)])] }

\* plugin.config(config)
MrenvViteConfig ==
    /\ AdapterCalled("mrenvVite")
    /\ \E config \in ViteConfigs :
         \E r \in {mrenvViteConfig(envIn.config, adOut.env, config)} :
           /\ adOut' = [adOut EXCEPT !.publicEnv = r.publicEnv]
           /\ adHook' = [called |-> TRUE, hook |-> "mrenvVite config",
                         returned |-> r.returned]
    /\ HookFrame

\* plugin.configResolved(config): the keys of publicEnv are logged in
\* development mode.
MrenvViteConfigResolved ==
    /\ AdapterCalled("mrenvVite")
    /\ \E mode \in {"development", "production"} :
           adHook' = [called |-> TRUE, hook |-> "mrenvVite configResolved",
                      logged |-> IF mode = "development"
                                 THEN Some(DOMAIN adOut.publicEnv) ELSE None]
    /\ UNCHANGED adOut
    /\ HookFrame

\* withSuperenv(nextConfig, options)
WithSuperenv ==
    /\ AdapterToCall("withSuperenv")
    /\ \E out \in {createEnv("core/createEnv.ts", envIn.config, host, fs, procEnv,
                             envCache, watchers)} :
         \E r \in {withSuperenv(envIn.config.nextConfig, envIn.config, EnvObject(out))} :
           /\ AdapterCreateEnv(out)
           /\ adOut' = AdapterCall("withSuperenv", out, r.publicEnv, Some(r.returned))

\* withMrenv(options)
WithMrenv ==
    /\ AdapterToCall("withMrenv")
    /\ \E out \in {createEnv("core/createEnv.ts", envIn.config, host, fs, procEnv,
                             envCache, watchers)} :
         \E r \in {withMrenv(envIn.config, EnvObject(out))} :
           /\ AdapterCreateEnv(out)
           /\ adOut' = AdapterCall("withMrenv", out, r.publicEnv, Some(r.returned))

\* { ...options, runtime }
WithRuntime(options, runtime) == [options EXCEPT !.runtime = Some(runtime)]

\* superenvExpress(options)
SuperenvExpress ==
    /\ AdapterToCall("superenvExpress")
    /\ \E out \in {createEnv("core/createEnv.ts", WithRuntime(envIn.config, "node"),
                             host, fs, procEnv, envCache, watchers)} :
           /\ AdapterCreateEnv(out)
           /\ adOut' = AdapterCall("superenvExpress", out,
                                   superenvExpressPublicEnv(envIn.config, EnvObject(out)),
                                   None)

\* The paths requested.
Paths == {"/_superenv.js", "/"}

\* middleware(req, res, next) of superenvExpress
SuperenvExpressRequest ==
    /\ AdapterCalled("superenvExpress")
    /\ \E path \in Paths :
           adHook' = superenvExpressRequest(adOut.env, adOut.publicEnv, path)
    /\ UNCHANGED adOut
    /\ HookFrame

\* mrenvExpress(options)
MrenvExpress ==
    /\ AdapterToCall("mrenvExpress")
    /\ \E out \in {createEnv("core/createEnv.ts", envIn.config, host, fs, procEnv,
                             envCache, watchers)} :
           /\ AdapterCreateEnv(out)
           /\ adOut' = AdapterCall("mrenvExpress", out,
                                   mrenvExpressPublicEnv(envIn.config, EnvObject(out)),
                                   None)

\* middleware(req, res, next) of mrenvExpress
MrenvExpressRequest ==
    /\ AdapterCalled("mrenvExpress")
    /\ adHook' = mrenvExpressRequest(adOut.env, adOut.publicEnv)
    /\ UNCHANGED adOut
    /\ HookFrame

\* superenvEdgeMiddleware(options)
SuperenvEdgeMiddleware ==
    /\ AdapterToCall("superenvEdgeMiddleware")
    /\ \E out \in {createEnv("core/createEnv.ts", WithRuntime(envIn.config, "edge"),
                             host, fs, procEnv, envCache, watchers)} :
           /\ AdapterCreateEnv(out)
           /\ adOut' = AdapterCall("superenvEdgeMiddleware", out, EmptyObject, None)

\* middleware(req) of superenvEdgeMiddleware
SuperenvEdgeRequest ==
    /\ AdapterCalled("superenvEdgeMiddleware")
    /\ \E pathname \in Paths :
           adHook' = superenvEdgeRequest(envIn.config, adOut.env, pathname)
    /\ UNCHANGED adOut
    /\ HookFrame

NextAdapters ==
    \/ MrenvVite \/ MrenvViteConfig \/ MrenvViteConfigResolved
    \/ WithSuperenv \/ WithMrenv
    \/ SuperenvExpress \/ SuperenvExpressRequest
    \/ MrenvExpress \/ MrenvExpressRequest
    \/ SuperenvEdgeMiddleware \/ SuperenvEdgeRequest

SpecAdapters == InitAdapters /\ [][NextAdapters]_vars

(***************************************************************************)
(* Claims about the schema validator (checked under SpecValidate)          *)
(***************************************************************************)
\* The run validated a descriptor table with the single entry PORT of the given
\* type, no validator that rejects, and a raw string present for PORT.
OneKeyRun(type) ==
    /\ valOut.called
    /\ valIn.schema.form = "descriptor"
    /\ Len(valIn.schema.entries) = 1
    /\ valIn.schema.entries[1].def.present
    /\ valIn.schema.entries[1].def.type = type
    /\ valIn.schema.entries[1].def.validate # "reject"
    /\ PORT \in DOMAIN valIn.env

ErrorNames(errors, key) == \E i \in DOMAIN errors : errors[i].key = key

\* The keys a descriptor table declares.
DeclaredKeys(schema) ==
    { schema.entries[i].key : i \in { j \in DOMAIN schema.entries : schema.entries[j].def.present } }

\* C8: validate returns either ok = true with an empty error list and a typed
\* mapping that has an entry for every declared key, or ok = false with a
\* non-empty error list; ok = false with an empty error list is never returned.
C8_OkCompleteOrErrors ==
    valOut.called =>
        \/ /\ valOut.ok
           /\ valOut.errors = <<>>
           /\ valIn.schema.form = "descriptor" =>
                  DeclaredKeys(valIn.schema) \subseteq DOMAIN valOut.typed
        \/ /\ ~valOut.ok
           /\ valOut.errors # <<>>

\* C9: for a descriptor entry of type number, validate yields ok = false with
\* an error naming the key whenever the raw string does not parse to a number
\* (the empty and the blank string included), and ok = true with the numeric
\* value whenever it does.
C9_ParsesToNumber(raw) == Trim(raw) # EmptyStr /\ ToNumber(raw) # NaN

C9_NumberCoercion ==
    OneKeyRun("number") =>
        IF C9_ParsesToNumber(valIn.env[PORT])
        THEN /\ valOut.ok
             /\ PORT \in DOMAIN valOut.typed
             /\ valOut.typed[PORT] = ToNumber(valIn.env[PORT])
        ELSE /\ ~valOut.ok
             /\ ErrorNames(valOut.errors, PORT)

\* C10: for a descriptor entry of type boolean, true/1/yes (any letter case)
\* coerce to true, false/0/no coerce to false, and every other raw string
\* produces a validation error for the key instead of a boolean.
C10_TrueWords == {<<"t", "r", "u", "e">>, <<"1">>, <<"y", "e", "s">>}

C10_FalseWords == {<<"f", "a", "l", "s", "e">>, <<"0">>, <<"n", "o">>}

C10_BooleanCoercion ==
    OneKeyRun("boolean") =>
        LET word == ToLowerCase(valIn.env[PORT])
        IN  CASE word \in C10_TrueWords ->
                   valOut.ok /\ PORT \in DOMAIN valOut.typed /\ valOut.typed[PORT] = BoolV(TRUE)
              [] word \in C10_FalseWords ->
                   valOut.ok /\ PORT \in DOMAIN valOut.typed /\ valOut.typed[PORT] = BoolV(FALSE)
              [] OTHER ->
                   ~valOut.ok /\ ErrorNames(valOut.errors, PORT)

(***************************************************************************)
(* Claims about the env-file reader (checked under SpecReader)             *)
(***************************************************************************)
\* The default precedence of the env files, highest first.
C1_Precedence == <<".env.local", ".env.development.local", ".env.development", ".env">>

\* The mapping the last call took from the given file, if it took one.
UsedVars(file) ==
    { readOut.used[i].vars : i \in { j \in DOMAIN readOut.used : readOut.used[j].file = file } }

\* The files of the last call that define key, by their rank in the precedence.
C1_Definers(key) ==
    { i \in DOMAIN C1_Precedence :
        \E v \in UsedVars(C1_Precedence[i]) : key \in DOMAIN v }

\* C1: after a read with the default patterns, the resolved value of every key
\* is the value from the highest-precedence file that defines it, the
\* precedence being .env.local, .env.<env>.local, .env.<env>, .env from
\* highest to lowest.
C1_HighestPrecedenceWins ==
    (readOut.called /\ ~readOut.customPaths.some /\ ~readOut.excludePatterns.some) =>
        \A key \in DOMAIN readOut.env :
            /\ C1_Definers(key) # {}
            /\ LET top == CHOOSE i \in C1_Definers(key) : \A j \in C1_Definers(key) : i <= j
               IN  \A v \in UsedVars(C1_Precedence[top]) : readOut.env[key] = v[key]

(***************************************************************************)
(* Claims about createEnv (checked under SpecCreateEnv)                    *)
(***************************************************************************)
\* A call of core/createEnv.ts, in either version, has been made.
CoreCalled == envOut.called /\ envOut.variant \in {"core/createEnv.ts", "second version"}

\* The raw keys the visibility rule lets through: not on the protected list
\* when one is supplied, and carrying the public prefix when one is supplied.
C2_Visible(raw, config) ==
    { k \in DOMAIN raw :
        /\ config.protectedEnv.some => ~Includes(config.protectedEnv.v, k)
        /\ config.publicPrefix.some => StartsWith(k, config.publicPrefix.v) }

\* C2: in a client context createEnv exposes exactly the raw keys that are not
\* on the protected list (when supplied) and start with the public prefix
\* (when supplied), a protected key being excluded even if it carries the
\* prefix; with neither supplied every raw key is visible.  The mapping
\* handed to validation is that restriction of the raw environment and,
\* without a schema, so is the returned object.
C2_ClientVisibility ==
    (CoreCalled /\ envOut.isClient) =>
        /\ envOut.filteredEnv =
               Restrict(envOut.processEnv, C2_Visible(envOut.processEnv, envIn.config))
        /\ ~envIn.config.schema.some =>
               /\ envOut.returned
               /\ envOut.result = AsValues(Restrict(envOut.processEnv,
                                                    C2_Visible(envOut.processEnv, envIn.config)))

\* A browser call with a protected list and a public prefix, on a raw
\* environment that holds a prefixed protected key, a prefixed key and an
\* unprefixed one: only the prefixed unprotected key is returned.
C2_Witness ==
    /\ CoreCalled
    /\ envOut.isClient
    /\ envIn.config.protectedEnv = Some(<<DB, PUB_S>>)
    /\ envIn.config.publicPrefix = Some(PUB_)
    /\ ~envIn.config.schema.some
    /\ DOMAIN envOut.processEnv = {PUB_A, PUB_S, DB}
    /\ DOMAIN envOut.result = {PUB_A}

\* C3: in a server context (runtime node, bun, deno or edge) createEnv applies
\* no visibility filtering, with or without a public prefix or a protected
\* list: every key of the merged raw environment (the ambient one and the
\* files read) is in the mapping handed to validation and, without a schema,
\* in the returned object, with its raw value.
C3_ServerNoFiltering ==
    (CoreCalled /\ envOut.runtime \in {"node", "bun", "deno", "edge"}) =>
        /\ envOut.filteredEnv = envOut.processEnv
        /\ \A i \in DOMAIN envOut.used :
               DOMAIN envOut.used[i].vars \subseteq DOMAIN envOut.filteredEnv
        /\ ~envIn.config.schema.some =>
               /\ envOut.returned
               /\ \A k \in DOMAIN envOut.processEnv :
                      /\ k \in DOMAIN envOut.result
                      /\ envOut.result[k] = StrV(envOut.processEnv[k])

\* An edge call with a protected list and a public prefix returns the
\* protected keys, prefixed or not, one of them read from .env.
C3_Witness ==
    /\ CoreCalled
    /\ envOut.runtime = "edge"
    /\ envIn.config.protectedEnv = Some(<<DB, PUB_S>>)
    /\ envIn.config.publicPrefix = Some(PUB_)
    /\ ~envIn.config.schema.some
    /\ envOut.used # <<>>
    /\ {DB, PUB_S, PUB_A} \subseteq DOMAIN envOut.result

\* C7: when validation fails createEnv either calls the configured
\* onValidationError handler with the aggregated errors or, with no handler
\* configured, raises to the caller and returns no environment object; it
\* never returns silently.
C7_FailureNeverSilent ==
    (envOut.called /\ envOut.failed) =>
        IF envIn.config.onValidationError
        THEN envOut.handlerCalled /\ envOut.handlerErrors = envOut.errors
        ELSE envOut.threw /\ ~envOut.returned

(***************************************************************************)
(* Claims about the accessors (checked under SpecAccessor)                 *)
(***************************************************************************)
\* The accessor of index.ts was created for a client-classified context and
\* a property was read through it.
ClientRead ==
    /\ envOut.called
    /\ envOut.variant = "index.ts"
    /\ envOut.accessor
    /\ ~envOut.isServer
    /\ getOut.called

\* The variables declared by the server schema only.
ServerOnly(config) == DOMAIN config.server \ (DOMAIN config.client \cup DOMAIN config.shared)

\* C4: an accessor created for a client-classified context never returns the
\* value of a variable that only the server schema declares, whatever the
\* configuration of createEnv is, skipValidation = true with a runtimeEnv
\* holding that variable included.
C4_ClientNeverReadsServerOnly ==
    (ClientRead /\ getOut.prop \in ServerOnly(envIn.config)
                /\ getOut.prop \in DOMAIN envOut.env) =>
        ~(getOut.does = "return" /\ getOut.value = StrV(envOut.env[getOut.prop]))

\* The read went through the accessor of index.ts.
IndexRead == envOut.called /\ envOut.variant = "index.ts" /\ envOut.accessor /\ getOut.called

\* The read went through the accessor of env.ts.
TsRead == envOut.called /\ envOut.variant = "env.ts" /\ envOut.returned /\ getOut.called

\* The keys of the server-side mapping: for index.ts the raw variables the
\* server schema keeps, for env.ts the keys of the store.
ServerSideKeys ==
    IF envOut.variant = "index.ts"
    THEN DOMAIN envOut.env \cap (DOMAIN envIn.config.server \cup DOMAIN envIn.config.shared)
    ELSE DOMAIN envStore

\* The keys a client-classified accessor may read.
ClientSideKeys ==
    IF envOut.variant = "index.ts"
    THEN DOMAIN envOut.target
    ELSE { k \in DOMAIN envStore : envStore[k].type # "server" }

\* The accessor is client-classified.
ClientAccessor ==
    IF envOut.variant = "index.ts" THEN ~envOut.isServer ELSE envOut.runtime = "browser"

\* C6: reading a key that is in no mapping raises an InvalidAccessError, and
\* reading from a client-classified accessor a key of the server-side mapping
\* that was filtered out raises a ServerOnlyAccessError.
C6_AccessErrorKinds ==
    (IndexRead \/ TsRead) =>
        /\ (getOut.prop \notin ServerSideKeys \cup ClientSideKeys) =>
               (getOut.does = "throw" /\ getOut.error = "InvalidAccessError")
        /\ (ClientAccessor /\ getOut.prop \in ServerSideKeys \ ClientSideKeys) =>
               (getOut.does = "throw" /\ getOut.error = "ServerOnlyAccessError")

(***************************************************************************)
(* Claims about the framework adapters (checked under SpecAdapters)        *)
(***************************************************************************)
\* The keys listed in protectedEnv.
ProtectedKeys ==
    IF envIn.config.protectedEnv.some
    THEN { envIn.config.protectedEnv.v[i] : i \in DOMAIN envIn.config.protectedEnv.v }
    ELSE {}

\* The keys of the environment objects the adapter has emitted for client
\* code: the define entries of the Vite plugin, nextConfig.env and
\* publicRuntimeConfig of the Next.js wrappers, the publicEnv scripts of the
\* middlewares.
EmittedKeys ==
    (IF adOut.called /\ ~adOut.threw /\ adOut.adapter = "withSuperenv"
     THEN DOMAIN adOut.returned.v.env
          \cup DOMAIN adOut.returned.v.publicRuntimeConfig._superenv
     ELSE {})
    \cup (IF adOut.called /\ ~adOut.threw /\ adOut.adapter = "withMrenv"
          THEN DOMAIN adOut.returned.v.env ELSE {})
    \cup (IF adHook.called /\ adHook.hook = "mrenvVite config"
          THEN { key \in DOMAIN adOut.env :
                   ViteDefineKey(key) \in DOMAIN adHook.returned.define }
          ELSE {})
    \cup (IF adHook.called /\ adHook.hook = "superenvExpress request" /\ adHook.sent.some
          THEN DOMAIN adHook.sent.v.json ELSE {})
    \cup (IF adHook.called /\ adHook.hook = "mrenvExpress request"
          THEN DOMAIN adHook.locals.publicEnv ELSE {})
    \cup (IF adHook.called /\ adHook.hook = "superenvEdgeMiddleware request"
             /\ adHook.response.some
          THEN DOMAIN adHook.response.v.json ELSE {})

\* C5: whichever the adapter, no key listed in protectedEnv is in the
\* environment object it emits for client code, whatever the key's prefix and
\* the other options are.
C5_NoProtectedKeyEmitted == ProtectedKeys \cap EmittedKeys = {}

\* The run validated a descriptor table with the single entry PORT, and env
\* has no raw value for PORT.
MissingRun ==
    /\ valOut.called
    /\ valIn.schema.form = "descriptor"
    /\ Len(valIn.schema.entries) = 1
    /\ valIn.schema.entries[1].def.present
    /\ PORT \notin DOMAIN valIn.env

\* C11: for a descriptor entry whose raw value is missing, validate uses the
\* entry's default when one is declared, also when the entry is required, and
\* records a missing-required-variable error only when the entry is required
\* and has no default; in the error case the key gets no typed value.
C11_DefaultBeforeRequired ==
    MissingRun =>
        /\ valIn.schema.entries[1].def.default # Undefined =>
               /\ PORT \in DOMAIN valOut.typed
               /\ valOut.typed[PORT] = valIn.schema.entries[1].def.default
        /\ (\E i \in DOMAIN valOut.errors : valOut.errors[i] = MissingError(PORT)) <=>
               (valIn.schema.entries[1].def.required
                /\ valIn.schema.entries[1].def.default = Undefined)
        /\ (\E i \in DOMAIN valOut.errors : valOut.errors[i] = MissingError(PORT)) =>
               PORT \notin DOMAIN valOut.typed

(***************************************************************************)
(* parser.ts: parse, expandEnvironmentVariables, stringify                 *)
(***************************************************************************)
\* The class [a-zA-Z0-9_], which is also \w.
IsWordChar(c) ==
    \/ IsDigit(c)
    \/ c = "_"
    \/ \E i \in DOMAIN UpperCase : UpperCase[i] = c
    \/ \E i \in DOMAIN LowerCase : LowerCase[i] = c

\* String.prototype.indexOf for a text: the first position of p in s, 0 when
\* s does not include p.
IndexOfText(s, p) ==
    LET at == { i \in 1..(Len(s) - Len(p) + 1) : SubSeq(s, i, i + Len(p) - 1) = p }
    IN  IF at = {} THEN 0 ELSE CHOOSE i \in at : \A j \in at : i <= j

\* String.prototype.split(separator): every part, in order.
RECURSIVE Split(_, _)
Split(s, separator) ==
    LET i == IndexOfText(s, separator)
    IN  IF i = 0 THEN <<s>>
        ELSE <<SubSeq(s, 1, i - 1)>>
                 \o Split(SubSeq(s, i + Len(separator), Len(s)), separator)

\* const [varName, defaultValue] = bracketed.split(":-") and the conditional
\* of line 118: the destructuring binds the first two parts of the split.
DefaultSyntax(parts, env) ==
    IF parts[1] \in DOMAIN env THEN env[parts[1]] ELSE parts[2]

\* The replacement function for a match of the alternative ${...}.
ReplaceBracketed(match, bracketed, env) ==
    IF IndexOfText(bracketed, <<":", "-">>) # 0
    THEN DefaultSyntax(Split(bracketed, <<":", "-">>), env)
    ELSE IF bracketed \in DOMAIN env THEN env[bracketed]
    ELSE match

\* The replacement function for a match of the alternative $NAME.
ReplaceSimple(match, simple, env) ==
    IF simple \in DOMAIN env THEN env[simple] ELSE match

\* Where /\${([^}]+)}/ ends when matched at the "$" that starts s: the position
\* of the first "}" after a non-empty capture, 0 when it does not match there.
BracketedEnd(s) ==
    IF /\ Len(s) >= 4
       /\ s[2] = "{"
       /\ s[3] # "}"
       /\ \E j \in 4..Len(s) : s[j] = "}"
    THEN CHOOSE j \in 4..Len(s) : s[j] = "}" /\ \A k \in 4..(j - 1) : s[k] # "}"
    ELSE 0

\* Where /\$([a-zA-Z0-9_]+)/ ends when matched at the "$" that starts s: the
\* last character of the longest run of word characters, 1 when there is none.
SimpleEnd(s) ==
    LET stop == { i \in 2..Len(s) : ~IsWordChar(s[i]) }
    IN  IF stop = {} THEN Len(s)
        ELSE (CHOOSE i \in stop : \A j \in stop : i <= j) - 1

\* value.replace(/\${([^}]+)}|\$([a-zA-Z0-9_]+)/g, ...): the matches are taken
\* from left to right and a replacement is not scanned again.
RECURSIVE expandEnvironmentVariables(_, _)
ExpandAtDollar(value, env, bracketedEnd, simpleEnd) ==
    IF bracketedEnd # 0
    THEN ReplaceBracketed(SubSeq(value, 1, bracketedEnd),
                          SubSeq(value, 3, bracketedEnd - 1), env)
             \o expandEnvironmentVariables(SubSeq(value, bracketedEnd + 1, Len(value)), env)
    ELSE IF simpleEnd > 1
    THEN ReplaceSimple(SubSeq(value, 1, simpleEnd), SubSeq(value, 2, simpleEnd), env)
             \o expandEnvironmentVariables(SubSeq(value, simpleEnd + 1, Len(value)), env)
    ELSE <<"$">> \o expandEnvironmentVariables(Tail(value), env)

expandEnvironmentVariables(value, env) ==
    IF value = EmptyStr THEN EmptyStr
    ELSE IF Head(value) = "$"
    THEN ExpandAtDollar(value, env, BracketedEnd(value), SimpleEnd(value))
    ELSE <<Head(value)>> \o expandEnvironmentVariables(Tail(value), env)

\* content.split(/\r?\n/)
RECURSIVE SplitCRLF(_)
SplitCRLF(content) ==
    LET i == IndexOf(content, "\n")
    IN  IF i = 0 THEN <<content>>
        ELSE <<SubSeq(content, 1, IF i > 1 /\ content[i - 1] = "\r" THEN i - 2 ELSE i - 1)>>
                 \o SplitCRLF(SubSeq(content, i + 1, Len(content)))

\* s without its leading white space, as a greedy \s* consumes it.
SkipSpace(s) ==
    LET keep == { i \in DOMAIN s : ~IsWhiteSpace(s[i]) }
    IN  IF keep = {} THEN EmptyStr
        ELSE SubSeq(s, CHOOSE i \in keep : \A j \in keep : i <= j, Len(s))

\* Whether (\s*#.*)?$ matches all of rest: rest is empty, or white space and
\* then a "#" followed by no line terminator.
CommentMatches(rest) ==
    \/ rest = EmptyStr
    \/ /\ StartsWith(SkipSpace(rest), <<"#">>)
       /\ \A i \in DOMAIN rest : i > IndexOf(rest, "#") => rest[i] # "\r"

\* The alternatives "[^"]*" and '[^']*' at the start of r: the quoted text
\* with its quotes when what follows the closing quote is a comment or nothing.
QuotedCapture(r, quote) ==
    IF Len(r) >= 2 /\ r[1] = quote /\ IndexOf(Tail(r), quote) # 0
          /\ CommentMatches(SubSeq(r, IndexOf(Tail(r), quote) + 2, Len(r)))
    THEN Some(SubSeq(r, 1, IndexOf(Tail(r), quote) + 1))
    ELSE None

\* The alternative [^#]* at the start of r: everything before the first "#".
UnquotedCapture(r) ==
    IF IndexOf(r, "#") = 0 THEN Some(r)
    ELSE IF CommentMatches(SubSeq(r, IndexOf(r, "#"), Len(r)))
    THEN Some(SubSeq(r, 1, IndexOf(r, "#") - 1))
    ELSE None

\* The second capture of the line pattern for the text r after "=" and the
\* white space that follows it; the alternatives are tried in their order.
ValueCapture(r) ==
    IF QuotedCapture(r, "\"").some THEN QuotedCapture(r, "\"")
    ELSE IF QuotedCapture(r, "'").some THEN QuotedCapture(r, "'")
    ELSE UnquotedCapture(r)

\* The length of the longest run of [\w.-] at the start of s.
KeyLength(s) ==
    LET stop == { i \in DOMAIN s : ~(IsWordChar(s[i]) \/ s[i] \in {".", "-"}) }
    IN  IF stop = {} THEN Len(s)
        ELSE (CHOOSE i \in stop : \A j \in stop : i <= j) - 1

\* line.match(/^\s*([\w.-]+)\s*=\s*("[^"]*"|'[^']*'|[^#]*)?(\s*#.*)?$/): the
\* key and the second capture, None when the line does not match.
AfterKey(key, afterKey) ==
    IF key = EmptyStr \/ ~StartsWith(afterKey, <<"=">>) THEN None
    ELSE IF ValueCapture(SkipSpace(Tail(afterKey))).some
    THEN Some([key |-> key, value |-> ValueCapture(SkipSpace(Tail(afterKey))).v])
    ELSE None

LineMatchFrom(s) ==
    AfterKey(SubSeq(s, 1, KeyLength(s)), SkipSpace(SubSeq(s, KeyLength(s) + 1, Len(s))))

LineMatch(line) == LineMatchFrom(SkipSpace(line))

\* Lines 63-91 for a matching line: trim, remove the surrounding quotes,
\* expand against { ...result, ...envForExpansion } and store.  The
\* replacement function raises nothing, so the catch of line 80 is never
\* entered.
ParserStore(result, key, value, expandVariables, envForExpansion) ==
    Put(result, key,
        IF expandVariables
        THEN expandEnvironmentVariables(value, Assign(result, envForExpansion))
        ELSE value)

ParserLine(result, line, expandVariables, envForExpansion) ==
    IF StartsWith(Trim(line), <<"#">>) \/ Trim(line) = EmptyStr THEN result
    ELSE IF ~LineMatch(line).some THEN result
    ELSE ParserStore(result, LineMatch(line).v.key,
                     StripQuotes(Trim(LineMatch(line).v.value)),
                     expandVariables, envForExpansion)

RECURSIVE ParserLines(_, _, _, _)
ParserLines(result, lines, expandVariables, envForExpansion) ==
    IF lines = <<>> THEN result
    ELSE ParserLines(ParserLine(result, Head(lines), expandVariables, envForExpansion),
                     Tail(lines), expandVariables, envForExpansion)

\* parse(content, options): [threw, env].  options.envForExpansion is None
\* when the caller leaves it out; its default process.env is evaluated on
\* entry and raises a ReferenceError on a host without process.
parse(content, expandVariables, envForExpansion, penv) ==
    IF ~envForExpansion.some /\ ~penv.some THEN [threw |-> TRUE, env |-> EmptyObject]
    ELSE [threw |-> FALSE,
          env   |-> ParserLines(EmptyObject, SplitCRLF(content), expandVariables,
                                IF envForExpansion.some THEN envForExpansion.v ELSE penv.v)]

\* String(value) for the numbers and booleans of the model.
RECURSIVE NaturalText(_)
NaturalText(n) ==
    IF n < 10 THEN <<Digits[n + 1]>>
    ELSE NaturalText(n \div 10) \o <<Digits[(n % 10) + 1]>>

StringOf(value) ==
    IF value.t = "boolean" THEN IF value.v THEN <<"t", "r", "u", "e">> ELSE <<"f", "a", "l", "s", "e">>
    ELSE IF value.v < 0 THEN <<"-">> \o NaturalText(0 - value.v)
    ELSE NaturalText(value.v)

\* value.replace(/"/g, '\\"')
RECURSIVE EscapeQuotes(_)
EscapeQuotes(value) ==
    IF value = EmptyStr THEN EmptyStr
    ELSE (IF Head(value) = "\"" THEN <<"\\", "\"">> ELSE <<Head(value)>>)
             \o EscapeQuotes(Tail(value))

\* The text stringify writes for one value.
StringValue(value) ==
    IF value.t = "string"
    THEN IF \E i \in DOMAIN value.v : IsWhiteSpace(value.v[i]) \/ value.v[i] \in {"\"", "'", "="}
         THEN <<"\"">> \o EscapeQuotes(value.v) \o <<"\"">>
         ELSE value.v
    ELSE StringOf(value)

\* stringify(env): env is given by its entries, in the order Object.entries
\* lists them, each a [key, value].
RECURSIVE stringify(_)
stringify(entries) ==
    IF entries = <<>> THEN EmptyStr
    ELSE Head(entries).key \o <<"=">> \o StringValue(Head(entries).value)
             \o (IF Len(entries) = 1 THEN EmptyStr
                 ELSE <<"\n">> \o stringify(Tail(entries)))

(***************************************************************************)
(* SpecParser: the functions of parser.ts and the parser of EnvReader      *)
(* applied to texts that hold references                                   *)
(***************************************************************************)
\* The tokens an expanded text holds: ${X:-default}, ${X} and $X.
DefaultToken(default) == <<"$", "{", "X", ":", "-">> \o default \o <<"}">>

ExpandDefaults == {<<"d">>, EmptyStr, <<"d", ":", "-", "e">>, <<"a", " ", "b">>}

ExpandTokens ==
    { [form |-> "default", default |-> d, text |-> DefaultToken(d)] : d \in ExpandDefaults }
        \cup {[form |-> "braces", text |-> <<"$", "{", "X", "}">>], [form |-> "simple", text |-> <<"$", "X">>]}

\* The scopes: X absent, X present and empty, X present with a value.
ExpandScopes == {EmptyObject, X :> EmptyStr, X :> <<"v">>}

ExpandRuns ==
    { [kind |-> "expand", token |-> t, pre |-> pre, post |-> post,
       value |-> pre \o t.text \o post, env |-> env] :
          t \in ExpandTokens, pre \in {EmptyStr, <<"p">>}, post \in {EmptyStr, <<".", "q">>},
          env \in ExpandScopes }

\* The files handed to the parsers: an optional line that defines X, then the
\* line that defines Y by a text that refers to X.
FirstLines == {None, Some(<<"f">>), Some(EmptyStr)}

References == {<<"$", "{", "X", "}">>, <<"$", "X">>, <<"$", "{", "X", ":", "-", "d", "}">>, <<"l", "$", "{", "X", "}", "r">>}

ContentOf(first, reference) ==
    (IF first.some THEN <<"X", "=">> \o first.v \o <<"\n">> ELSE EmptyStr)
        \o <<"Y", "=">> \o reference

ParseRuns ==
    { [kind |-> "parse", first |-> first, reference |-> reference,
       content |-> ContentOf(first, reference),
       expandVariables |-> expand, envForExpansion |-> scope] :
          first \in FirstLines, reference \in References, expand \in BOOLEAN,
          scope \in {None, Some(X :> <<"o", "p", "t">>)} }

\* The mappings handed to stringify: Y with one value, alone or after X.
RoundTripValues ==
    { StrV(s) : s \in {<<"v">>, EmptyStr, <<"a", " ", "b">>, <<" ", "a", " ">>, <<"a", "#", "b">>, <<"#">>, <<"a", "=", "b">>,
                       <<"i", "t", "'", "s">>, <<"a", "\"", "b">>, <<"$", "X">>, <<"$", "{", "X", "}">>, <<"a", "$">>} }
        \cup {NumV(0), NumV(42), NumV(0 - 7), BoolV(TRUE), BoolV(FALSE)}

StringifyRuns ==
    { [kind |-> "stringify", entries |-> before \o <<[key |-> Y, value |-> v]>>] :
          v \in RoundTripValues,
          before \in {<<>>, <<[key |-> X, value |-> StrV(<<"x">>)]>>} }

\* The files handed to the parsers to see one line parsed: a line that
\* defines nothing, then the line that defines Y by a quoted or escaped text.
LeadLines == {EmptyStr, <<"\n">>, <<" ", " ", "\n">>, <<"#", " ", "c", "\n">>, <<" ", "#", "X", "=", "1", "\n">>}

LineValues == {<<"v">>, <<"\"", "v", "\"">>, <<"'", "v", "'">>, <<"\"", "\"", "v", "\"", "\"">>,
               <<"\"", "a", "\\", "n", "b", "\"">>, <<"a", "\\", "t", "b">>, <<"'", "a", "\\", "r", "b", "'">>}

LineContent(lead, value) == lead \o <<"Y", "=">> \o value

LineRuns ==
    { [kind |-> "parse", first |-> None, reference |-> value,
       content |-> LineContent(lead, value),
       expandVariables |-> expand, envForExpansion |-> None] :
          lead \in LeadLines, value \in LineValues, expand \in BOOLEAN }

ParserInputs == ExpandRuns \cup ParseRuns \cup LineRuns \cup StringifyRuns

\* process.env: no process, an empty environment, X with a value, X empty.
ParserAmbients == {None, Some(EmptyObject), Some(X :> <<"a", "m", "b">>), Some(X :> EmptyStr)}

InitParser ==
    /\ parIn \in ParserInputs
    /\ parOut = NotCalled
    /\ procEnv \in ParserAmbients
    /\ valIn = NotCalled
    /\ valOut = NotCalled
    /\ registry = BuiltInAdapters
    /\ fs = [f \in AllFiles |-> Absent]
    /\ envCache = EmptyObject
    /\ watchers = <<>>
    /\ readOut = NotCalled
    /\ EnvIdle

ParserFrame == UNCHANGED <<valIn, valOut, parIn, registry, readerVars, envVars>>

\* expandEnvironmentVariables(value, env)
ExpandEnvironmentVariables ==
    /\ ~parOut.called
    /\ parIn.kind = "expand"
    /\ parOut' = [called |-> TRUE, by |-> "expandEnvironmentVariables",
                  value |-> expandEnvironmentVariables(parIn.value, parIn.env)]
    /\ ParserFrame

\* parse(content, { expandVariables, envForExpansion })
Parse ==
    /\ ~parOut.called
    /\ parIn.kind = "parse"
    /\ \E r \in {parse(parIn.content, parIn.expandVariables, parIn.envForExpansion, procEnv)} :
           parOut' = [called |-> TRUE, by |-> "parse", threw |-> r.threw, env |-> r.env]
    /\ ParserFrame

\* EnvReader.parseEnvFile(content), as readEnvFiles calls it for a file.
ParseEnvFile ==
    /\ ~parOut.called
    /\ parIn.kind = "parse"
    /\ parIn.expandVariables
    /\ ~parIn.envForExpansion.some
    /\ \E r \in {parseEnvFile(parIn.content, procEnv)} :
           parOut' = [called |-> TRUE, by |-> "parseEnvFile", threw |-> r.threw, env |-> r.env]
    /\ ParserFrame

\* stringify(mapping)
Stringify ==
    /\ ~parOut.called
    /\ parIn.kind = "stringify"
    /\ parOut' = [called |-> TRUE, by |-> "stringify", text |-> stringify(parIn.entries)]
    /\ ParserFrame

\* parse(text) of the text stringify returned, with the default options.
ParseStringified ==
    /\ parOut.called
    /\ parOut.by = "stringify"
    /\ \E r \in {parse(parOut.text, TRUE, None, procEnv)} :
           parOut' = [called |-> TRUE, by |-> "parse(stringify)", text |-> parOut.text,
                      threw |-> r.threw, env |-> r.env]
    /\ ParserFrame

NextParser ==
    \/ ExpandEnvironmentVariables
    \/ Parse
    \/ ParseEnvFile
    \/ Stringify
    \/ ParseStringified

SpecParser == InitParser /\ [][NextParser]_vars

(***************************************************************************)
(* Claims about the parsers                                                *)
(***************************************************************************)
\* C12: for every scope, expanding ${X:-default} substitutes the scope's value
\* for X when X is present, also when that value is the empty string, and the
\* whole literal text after the first ":-", further ":-" included, when X is
\* absent; the text around the token is kept.
C12_DefaultValueForm ==
    (parOut.called /\ parOut.by = "expandEnvironmentVariables"
         /\ parIn.token.form = "default") =>
        parOut.value = parIn.pre
                           \o (IF X \in DOMAIN parIn.env THEN parIn.env[X]
                               ELSE parIn.token.default)
                           \o parIn.post

\* A parser that expands has parsed a file whose only line defines Y by a
\* reference to X, with the ambient variables as the scope.
ExpandingParse ==
    /\ parOut.called
    /\ parOut.by \in {"parse", "parseEnvFile"}
    /\ parIn.expandVariables
    /\ ~parIn.envForExpansion.some
    /\ procEnv.some

\* C13: when X is absent from the scope and the reference has no default,
\* every parser that expands leaves $X and ${X} as they are written: it
\* neither raises nor substitutes the empty string.
C13_AbsentReferenceUnchanged ==
    (ExpandingParse /\ ~parIn.first.some /\ X \notin DOMAIN procEnv.v
         /\ parIn.reference \in {<<"$", "{", "X", "}">>, <<"$", "X">>}) =>
        /\ ~parOut.threw
        /\ Y \in DOMAIN parOut.env
        /\ parOut.env[Y] = parIn.reference

\* The text a reference to X stands for when X has the value v.
ReferenceWith(reference, v) ==
    IF reference = <<"l", "$", "{", "X", "}", "r">> THEN <<"l">> \o v \o <<"r">> ELSE v

\* C14: when X is defined by an earlier line of the file and by the ambient
\* process variables, a later reference to X expands to the ambient value, in
\* every parser that expands.
C14_AmbientShadowsEarlierLine ==
    (ExpandingParse /\ parIn.first.some /\ X \in DOMAIN procEnv.v) =>
        /\ ~parOut.threw
        /\ Y \in DOMAIN parOut.env
        /\ parOut.env[Y] = ReferenceWith(parIn.reference, procEnv.v[X])

\* The string form of a value of a mapping.
StringForm(value) == IF value.t = "string" THEN value.v ELSE StringOf(value)

\* C15: parse(stringify(mapping)) has the key set of the mapping and gives
\* every key the string form of its value, also for values that hold spaces,
\* "#", "=", quotes or "$".
C15_RoundTrip ==
    (parOut.called /\ parOut.by = "parse(stringify)" /\ procEnv.some) =>
        /\ ~parOut.threw
        /\ DOMAIN parOut.env = { parIn.entries[i].key : i \in DOMAIN parIn.entries }
        /\ \A i \in DOMAIN parIn.entries :
               parOut.env[parIn.entries[i].key] = StringForm(parIn.entries[i].value)

(***************************************************************************)
(* Watchers: the change callbacks and closeAllWatchers                     *)
(***************************************************************************)
\* closeAllWatchers with the watchers left registered, for comparison.
closeAllWatchersKeeping(ws) == ws

\* closeAllWatchers: every watcher of the list is closed and the list is
\* emptied.  A watcher is open from fs.watch until close(), and every place
\* that takes a watcher off the list closes it, so the reader's open watchers
\* are the members of this.watchers.
closeAllWatchers(ws) == <<>>

\* The callback setupWatcher hands to fs.watch, run for a "change" event on
\* filePath: the file is read and parsed again into this.envCache; whatever
\* readFileSync or parseEnvFile throws is caught and logged.  notifyChange
\* only logs.
FsWatchCallbackParsed(cache, filePath, parsed) ==
    IF parsed.threw THEN cache ELSE Put(cache, filePath, parsed.env)

fsWatchCallback(disk, penv, cache, filePath) ==
    IF disk[filePath] = Absent \/ disk[filePath] = Unreadable THEN cache
    ELSE FsWatchCallbackParsed(cache, filePath, parseEnvFile(disk[filePath].text, penv))

\* The loop of the chokidar callback of env.ts: the keys the store already
\* has take the file's new value; the store gets no new key.
UpdateStore(store, updatedVars) ==
    [k \in DOMAIN store |->
        IF k \in DOMAIN updatedVars THEN [store[k] EXCEPT !.value = updatedVars[k]]
        ELSE store[k]]

\* The callback env.ts registers with watcher.on('change', ...).
chokidarCallback(disk, store, filePath) ==
    IF disk[filePath] = Absent \/ disk[filePath] = Unreadable THEN store
    ELSE UpdateStore(store, parseEnvContent(disk[filePath].text))

(***************************************************************************)
(* SpecWatch: a program that calls createEnv with auto-reload again and    *)
(* again while the env files change, the watchers fire and the reader's    *)
(* watchers are closed                                                     *)
(***************************************************************************)
\* The most watchers the reader may hold when a further createEnv call starts.
MaxWatchers == 2

WatchedFiles == {".env", ".env.local"}

\* .env goes through every state; .env.local is absent or holds its first text.
WatchLastState(file) == IF file = ".env" THEN 3 ELSE 1

WatchStates(file) == { FileState(file, n) : n \in 0..WatchLastState(file) }

WatchDirectories ==
    { [f \in AllFiles |-> IF f \in WatchedFiles THEN FileState(f, d[f]) ELSE Absent] :
        d \in { e \in [WatchedFiles -> 0..3] : \A f \in WatchedFiles : e[f] <= WatchLastState(f) } }

\* The createEnv the program imports and the configuration it passes.
WatchRuns ==
    { [variant |-> v, config |-> CoreConfig(None, None, None, None, None, FALSE, ar)] :
        v \in {"core/createEnv.ts", "second version"}, ar \in {None, Some(TRUE)} }
    \cup { [variant |-> "env.ts",
            config |-> TsConfig(None, None, None, None, None, None, FALSE, w)] :
             w \in {None, Some(TRUE)} }

InitWatch ==
    /\ ValidatorIdle
    /\ envIn \in WatchRuns
    /\ host = NodeHost
    /\ procEnv = Some(ReaderProcEnv)
    /\ fs \in WatchDirectories
    /\ envCache = EmptyObject
    /\ watchers = <<>>
    /\ readOut = NotCalled
    /\ envOut = NotCalled
    /\ envStore = EmptyObject
    /\ storeWatchers = <<>>
    /\ typesFile = None
    /\ getOut = NotCalled
    /\ adOut = NotCalled
    /\ adHook = NotCalled

\* createEnv(config) of core/createEnv.ts, called once more.  readOut records
\* that the reader's last call was the readEnvFiles of line 29.
WatchCreateEnv ==
    /\ envIn.config.kind = "CreateEnvConfig"
    /\ Len(watchers) < MaxWatchers
    /\ \E out \in {createEnv(envIn.variant, envIn.config, host, fs, procEnv,
                             envCache, watchers)} :
           /\ envOut' = CallRecord(out)
           /\ envCache' = out.cache
           /\ watchers' = out.watchers
    /\ readOut' = [called |-> TRUE, op |-> "readEnvFiles"]
    /\ UNCHANGED <<valVars, fs, procEnv, host, envIn, envStore, storeWatchers,
                   typesFile, getOut, adOut, adHook>>

\* createEnv(config) of env.ts, called once more.
WatchCreateEnvTs ==
    /\ envIn.config.kind = "EnvConfig"
    /\ \E out \in {createEnvTs(envIn.config, host, fs, procEnv, typesFile)} :
           /\ envOut' = CallRecord(out)
           /\ envStore' = out.store
           /\ storeWatchers' = out.watchers
           /\ typesFile' = out.types
    /\ UNCHANGED <<valVars, readerVars, host, envIn, getOut, adOut, adHook>>

\* Something outside the program rewrites, locks or removes a watched file.
WatchWrite ==
    \E f \in WatchedFiles : \E st \in WatchStates(f) : WriteFile(f, st)

\* The host delivers a "change" event to the i-th watcher of the reader.
FsWatchChange(i) ==
    /\ i \in DOMAIN watchers
    /\ watchers[i].open
    /\ envCache' = fsWatchCallback(fs, procEnv, envCache, watchers[i].file)
    /\ UNCHANGED <<valVars, fs, procEnv, watchers, readOut, envVars>>

\* chokidar delivers a change event to the i-th watcher of env.ts.
ChokidarChange(i) ==
    /\ i \in DOMAIN storeWatchers
    /\ envStore' = chokidarCallback(fs, envStore, storeWatchers[i].file)
    /\ UNCHANGED <<valVars, readerVars, host, envIn, envOut, storeWatchers,
                   typesFile, getOut, adOut, adHook>>

WatchEvent ==
    \/ \E i \in 1..(MaxWatchers + Cardinality(WatchedFiles)) : FsWatchChange(i)
    \/ \E i \in 1..Cardinality(WatchedFiles) : ChokidarChange(i)

\* envReader.closeAllWatchers()
CloseAllWatchers ==
    /\ watchers' = closeAllWatchers(watchers)
    /\ readOut' = [called |-> TRUE, op |-> "closeAllWatchers"]
    /\ UNCHANGED <<valVars, fs, procEnv, envCache, envVars>>

NextWatch ==
    \/ WatchCreateEnv
    \/ WatchCreateEnvTs
    \/ WatchWrite
    \/ WatchEvent
    \/ CloseAllWatchers

SpecWatch == InitWatch /\ [][NextWatch]_vars

(***************************************************************************)
(* Claims about the watchers                                               *)
(***************************************************************************)
\* The value read through the environment object the last createEnv call
\* returned: a property of the plain object of core/createEnv.ts, the get trap
\* of the proxy of env.ts.
LiveRead(out, store, key) ==
    IF out.variant = "env.ts"
    THEN createEnvProxyGet(store, out.runtime, key)
    ELSE GetReturned(key, IF key \in DOMAIN out.result THEN out.result[key] ELSE Undefined)

\* C16: after any sequence of createEnv calls with auto-reload, the watchers of
\* the earlier calls are closed: no path has more than one open watcher, in the
\* reader and in env.ts, so the open watchers do not grow with the calls.
C16_OneOpenWatcherPerPath ==
    /\ \A i, j \in DOMAIN watchers :
           (i # j /\ watchers[i].open /\ watchers[j].open) =>
               watchers[i].file # watchers[j].file
    /\ \A i, j \in DOMAIN storeWatchers :
           i # j => storeWatchers[i].file # storeWatchers[j].file

\* C17: when the callback of a watcher has run for a changed file, reading
\* through the environment object the earlier createEnv call returned gives
\* the file's new value for every key the file now defines.
C17_LiveValuesFollowFile ==
    [][/\ \A i \in DOMAIN watchers :
              (FsWatchChange(i) /\ fs[watchers[i].file] \in { File(FirstText(watchers[i].file)),
                                                              File(SecondText(watchers[i].file)) }) =>
                  \A k \in DOMAIN parseEnvFile(fs[watchers[i].file].text, procEnv).env :
                      LiveRead(envOut', envStore', k)
                          = GetReturned(k, StrV(parseEnvFile(fs[watchers[i].file].text,
                                                             procEnv).env[k]))
       /\ \A i \in DOMAIN storeWatchers :
              (ChokidarChange(i) /\ fs[storeWatchers[i].file] \in { File(FirstText(storeWatchers[i].file)),
                                                                    File(SecondText(storeWatchers[i].file)) }) =>
                  \A k \in DOMAIN parseEnvContent(fs[storeWatchers[i].file].text) :
                      LiveRead(envOut', envStore', k)
                          = GetReturned(k, ProxyValue(parseEnvContent(
                                               fs[storeWatchers[i].file].text)[k]))
      ]_vars

\* C18: closeAllWatchers closes every watcher of the reader and leaves the
\* registry empty; from then on, until the program calls createEnv again, a
\* file change or a watcher event updates neither the reader's cache nor the
\* environment object the program holds.
C18_ClosedWatchersStayQuiet ==
    [][/\ CloseAllWatchers => watchers' = <<>>
       /\ (readOut.called /\ readOut.op = "closeAllWatchers" /\ (WatchWrite \/ WatchEvent)) =>
              (envCache' = envCache /\ envOut' = envOut)
      ]_vars

\* The reader watched .env, its watchers were closed, and the file was
\* rewritten after that: the cache still holds the first text.
C18_Witness ==
    /\ readOut.called
    /\ readOut.op = "closeAllWatchers"
    /\ envIn.config.kind = "CreateEnvConfig"
    /\ envIn.config.autoReload = Some(TRUE)
    /\ watchers = <<>>
    /\ ".env" \in DOMAIN envCache
    /\ envCache[".env"] = parseEnvFile(FirstText(".env"), procEnv).env
    /\ fs[".env"] = File(SecondText(".env"))

(***************************************************************************)
(* Claims about the reader's handling of missing and failing files         *)
(***************************************************************************)
\* What a file of the list gives to the result of a call without auto-reload:
\* nothing when it is missing, its cached mapping when the reader has one,
\* nothing when it cannot be read, and else the mapping parsed from it.
Contribution(disk, penv, cache, file) ==
    IF disk[file] = Absent THEN EmptyObject
    ELSE IF file \in DOMAIN cache THEN cache[file]
    ELSE IF disk[file] = Unreadable THEN EmptyObject
    ELSE parseEnvFile(disk[file].text, penv).env

\* The contributions of the files, merged in the order of the list.
RECURSIVE MergeContributions(_, _, _, _)
MergeContributions(disk, penv, cache, files) ==
    IF files = <<>> THEN EmptyObject
    ELSE Assign(MergeContributions(disk, penv, cache, SubSeq(files, 1, Len(files) - 1)),
                Contribution(disk, penv, cache, files[Len(files)]))

\* C19: readEnvFiles skips a missing file, and a file whose read fails gives
\* nothing and does not stop the files after it: the call returns the merge,
\* in the order of the list, of what the other files give.
C19_FailingFilesSkipped ==
    [][\A cp \in ReaderPaths, ex \in ReaderExcludes :
           ReadEnvFilesCall(cp, ex, FALSE) =>
               readOut'.env = MergeContributions(fs, procEnv, envCache, getEnvFiles(cp, ex))
      ]_vars

\* A call of the default list has returned X from .env and from the file read
\* after .env.local, while .env.local cannot be read, is not cached, and
\* .env.development.local is missing.
C19_Witness ==
    /\ readOut.called
    /\ ~readOut.customPaths.some
    /\ ~readOut.excludePatterns.some
    /\ fs[".env.local"] = Unreadable
    /\ ".env.local" \notin DOMAIN envCache
    /\ fs[".env.development.local"] = Absent
    /\ fs[".env"] = File(FirstText(".env"))
    /\ fs[".env.development"] = File(FirstText(".env.development"))
    /\ \E i, j \in DOMAIN readOut.used :
           /\ readOut.used[i].file = ".env"
           /\ readOut.used[j].file = ".env.development"
    /\ X \in DOMAIN readOut.env

(***************************************************************************)
(* SpecRuntime: RuntimeDetector.detectRuntime on every combination of the  *)
(* globals it looks at                                                     *)
(***************************************************************************)
\* The hosts: process.versions needs process, its bun and node entries need
\* process.versions, and self.addEventListener needs self.
RuntimeGlobals ==
    { gs \in SUBSET {"Deno", "versions", "bun", "node", "window", "document",
                     "self", "addEventListener"} :
        /\ ("bun" \in gs \/ "node" \in gs) => "versions" \in gs
        /\ "addEventListener" \in gs => "self" \in gs }

RuntimeWorlds ==
    { w \in { [host |-> HostOf(gs), procEnv |-> p] :
                gs \in RuntimeGlobals, p \in {None, Some(EmptyObject)} } :
        w.host.versions => w.procEnv.some }

InitRuntime ==
    /\ ValidatorIdle
    /\ \E w \in RuntimeWorlds :
           /\ host = w.host
           /\ procEnv = w.procEnv
    /\ fs = [f \in AllFiles |-> Absent]
    /\ envCache = EmptyObject
    /\ watchers = <<>>
    /\ readOut = NotCalled
    /\ envIn = NotCalled
    /\ envOut = NotCalled
    /\ envStore = EmptyObject
    /\ storeWatchers = <<>>
    /\ typesFile = None
    /\ getOut = NotCalled
    /\ adOut = NotCalled
    /\ adHook = NotCalled

\* runtimeDetector.detectRuntime()
DetectRuntime ==
    /\ ~envOut.called
    /\ envOut' = [called |-> TRUE, op |-> "detectRuntime",
                  runtime |-> detectRuntime(host, procEnv)]
    /\ UNCHANGED <<valVars, readerVars, host, envIn, envStore, storeWatchers,
                   typesFile, getOut, adOut, adHook>>

NextRuntime == DetectRuntime

SpecRuntime == InitRuntime /\ [][NextRuntime]_vars

(***************************************************************************)
(* Claims about the runtime classifier                                     *)
(***************************************************************************)
\* The earliest rule that matches: Deno, Bun, Node, window and document
\* (browser), addEventListener without a document (edge), else the fallback.
EarliestRule(h, penv) ==
    IF h.Deno THEN "deno"
    ELSE IF penv.some /\ h.versions /\ h.bun THEN "bun"
    ELSE IF penv.some /\ h.versions /\ h.node THEN "node"
    ELSE IF h.window /\ h.document THEN "browser"
    ELSE IF h.self /\ h.addEventListener /\ ~h.document THEN "edge"
    ELSE "node"

\* C20: for every combination of present and absent globals, detectRuntime
\* returns the result of the earliest matching rule in the order Deno, Bun,
\* Node, browser (window and document), edge (addEventListener without a
\* document), server fallback.
C20_EarliestRuleWins ==
    (envOut.called /\ envOut.op = "detectRuntime") =>
        envOut.runtime = EarliestRule(host, procEnv)

(***************************************************************************)
(* Claims about the runtime a createEnv call settles on                    *)
(***************************************************************************)
\* C21: isServer is true for node, deno, bun and edge and false for browser,
\* and createEnv never takes "auto" as a runtime: an unset or "auto" runtime is
\* replaced by the detected one, so _metadata.runtime is never "auto" and
\* _metadata.isClient is the negation of isServer(_metadata.runtime).
C21_AutoIsNeverARuntime ==
    /\ \A r \in {"node", "deno", "bun", "edge"} : isServer(r)
    /\ ~isServer("browser")
    /\ CoreCalled =>
           /\ envOut.metadata.runtime # "auto"
           /\ envOut.metadata.runtime =
                  (IF ~envIn.config.runtime.some \/ envIn.config.runtime.v = "auto"
                   THEN detectRuntime(host, procEnv)
                   ELSE envIn.config.runtime.v)
           /\ envOut.metadata.isClient = ~isServer(envOut.metadata.runtime)

\* createEnv({ runtime: "auto" }) has returned on a browser host: the runtime
\* it reports is the detected one and the call counts as a client call.
C21_Witness ==
    /\ CoreCalled
    /\ envOut.returned
    /\ envIn.config.runtime = Some("auto")
    /\ host = BrowserHost
    /\ envOut.metadata.runtime = "browser"
    /\ envOut.metadata.isClient

(***************************************************************************)
(* Claims about the exclusion list                                         *)
(***************************************************************************)
\* C22: a file whose pattern is on the exclusion list gives no variable to
\* the result of readEnvFiles, with the default list of candidates and with
\* an explicit list of paths alike.
C22_ExcludedFilesGiveNothing ==
    (readOut.called /\ readOut.excludePatterns.some) =>
        \A i \in DOMAIN readOut.used :
            ~Includes(readOut.excludePatterns.v, readOut.used[i].file)

(***************************************************************************)
(* Claims about the client call of createEnv                               *)
(***************************************************************************)
\* What the env-file reader supplies for the call's paths on the call's disk.
ReaderSupplies ==
    readEnvFiles(fs, procEnv, EmptyObject, <<>>, envIn.config.paths, None, FALSE).env

\* C23: when the runtime is classified as client, createEnv with a public
\* prefix and a protected list returns every variable the env-file reader
\* supplies whose key starts with the prefix and is not on the list, omits
\* every key of the list, and reports _metadata.isClient = true.
C23_ClientGetsPublicFileVariables ==
    (CoreCalled /\ envOut.runtime = "browser" /\ envOut.returned
         /\ ~envIn.config.schema.some
         /\ envIn.config.publicPrefix.some /\ envIn.config.protectedEnv.some) =>
        /\ envOut.metadata.isClient
        /\ \A k \in DOMAIN ReaderSupplies :
               (StartsWith(k, envIn.config.publicPrefix.v)
                    /\ ~Includes(envIn.config.protectedEnv.v, k)) =>
                   /\ k \in DOMAIN envOut.result
                   /\ envOut.result[k] = StrV(ReaderSupplies[k])
        /\ \A k \in DOMAIN envOut.result : ~Includes(envIn.config.protectedEnv.v, k)

(***************************************************************************)
(* adapters/index.ts: the registry, registerAdapter and resolveAdapter by  *)
(* name                                                                    *)
(***************************************************************************)
\* The constructor every object literal inherits as its property constructor.
ObjectClass == [class |-> <<"O", "b", "j", "e", "c", "t">>]

\* adapters[key]: an own entry of the map, or what the map inherits from
\* Object.prototype; None when the property is undefined.
RegistryLookup(reg, key) ==
    IF key \in DOMAIN reg THEN Some(reg[key])
    ELSE IF key = <<"c", "o", "n", "s", "t", "r", "u", "c", "t", "o", "r">> THEN Some(ObjectClass)
    ELSE IF key \in ObjectPrototypeKeys THEN Some([class |-> key, method |-> TRUE])
    ELSE None

\* new AdapterClass() and the optional instance.init(options).  An inherited
\* method is not a constructor, and the object new Object() gives has no init.
Instantiate(AdapterClass, options) ==
    IF "method" \in DOMAIN AdapterClass THEN [threw |-> TRUE, error |-> "TypeError"]
    ELSE IF AdapterClass = ObjectClass /\ options THEN [threw |-> TRUE, error |-> "TypeError"]
    ELSE [threw |-> FALSE, instanceOf |-> AdapterClass]

\* The branch of resolveAdapter for an adapter given by name (lines 133-147):
\* the name is looked up in lower case.
ResolveFound(found, options) ==
    IF ~found.some THEN [threw |-> TRUE, error |-> "EnvSafeError"]
    ELSE Instantiate(found.v, options)

resolveAdapterByName(reg, adapter, options) ==
    ResolveFound(RegistryLookup(reg, ToLowerCase(adapter)), options)

\* registerAdapter(name, adapter): adapters[name] = adapter
registerAdapter(reg, name, adapter) == Put(reg, name, adapter)

(***************************************************************************)
(* SpecRegistry: a program that registers adapters and resolves adapters   *)
(* by name                                                                 *)
(***************************************************************************)
\* The classes a program registers.
CustomClasses == {[class |-> <<"A">>], [class |-> <<"B">>]}

\* The names it registers them under.
RegisteredNames == {<<"c", "u", "s", "t", "o", "m">>, <<"C", "u", "s", "t", "o", "m">>, <<"n", "o", "d", "e">>}

\* The names it resolves.
ResolvedNames ==
    RegisteredNames \cup {<<"N", "o", "d", "e">>, <<"n", "e", "x", "t">>, <<"n", "o", "p", "e">>, <<"c", "o", "n", "s", "t", "r", "u", "c", "t", "o", "r">>}

InitRegistry ==
    /\ valIn = NotCalled
    /\ valOut = NotCalled
    /\ parIn = NotCalled
    /\ parOut = NotCalled
    /\ registry = BuiltInAdapters
    /\ ReaderIdle
    /\ EnvIdle

\* registerAdapter(name, adapter)
RegisterAdapter(name, adapter) ==
    /\ registry' = registerAdapter(registry, name, adapter)
    /\ UNCHANGED <<valIn, valOut, parIn, parOut, readerVars, envVars>>

\* resolveAdapter(name) and resolveAdapter(name, options); adOut records the
\* call, the registry it ran on and what came of it.
ResolveAdapter(name, options) ==
    /\ adOut' = [called |-> TRUE, name |-> name, options |-> options, on |-> registry,
                 outcome |-> resolveAdapterByName(registry, name, options)]
    /\ UNCHANGED <<valVars, readerVars, host, envIn, envOut, envStore, storeWatchers,
                   typesFile, getOut, adHook>>

RegisterAny == \E name \in RegisteredNames, adapter \in CustomClasses : RegisterAdapter(name, adapter)

ResolveAny == \E name \in ResolvedNames, options \in BOOLEAN : ResolveAdapter(name, options)

NextRegistry == RegisterAny \/ ResolveAny

SpecRegistry == InitRegistry /\ [][NextRegistry]_vars

(***************************************************************************)
(* Claims about the registry                                               *)
(***************************************************************************)
\* The names that were registered or are built in, in lower case.
KnownLowerCase(reg) == { ToLowerCase(n) : n \in DOMAIN reg }

\* C24: after registerAdapter(name, A), resolveAdapter(name) returns an
\* instance of A, whatever the letter case of the name; and resolveAdapter of
\* a name that was never registered and is not built in raises an
\* EnvSafeError instead of returning an adapter.
C24_RegisteredNamesResolve ==
    adOut.called =>
        /\ adOut.name \in DOMAIN adOut.on =>
               /\ ~adOut.outcome.threw
               /\ adOut.outcome.instanceOf = adOut.on[adOut.name]
        /\ ToLowerCase(adOut.name) \notin KnownLowerCase(adOut.on) =>
               /\ adOut.outcome.threw
               /\ adOut.outcome.error = "EnvSafeError"

(***************************************************************************)
(* Claims about the parsing of one line                                    *)
(***************************************************************************)
\* C25: parsing a file line strips exactly one matching pair of surrounding
\* double or single quotes and then replaces the two-character sequences \n,
\* \r and \t in the value by the newline, carriage-return and tab characters;
\* blank lines and lines whose first non-blank character is # define no key.
C25_QuotesStrippedThenUnescaped ==
    (parOut.called /\ parOut.by \in {"parse", "parseEnvFile"} /\ procEnv.some) =>
        \A lead \in LeadLines, value \in LineValues :
            parIn.content = LineContent(lead, value) =>
                /\ ~parOut.threw
                /\ DOMAIN parOut.env = {Y}
                /\ parOut.env[Y] = ProcessEscapes(StripQuotes(value))

(***************************************************************************)
(* Claims about descriptor-table validation                                *)
(***************************************************************************)
\* The error a declared key calls for, as a list of at most one error: the
\* key is missing while required, or its value fails coercion, or its
\* validator returns false on the coerced value.
KeyFailure(env, entry) ==
    LET value   == Get(env, entry.key)
        missing == value = Undefined \/ value = Null
        conv    == convertValue(value, entry.def.type)
    IN  IF ~entry.def.present THEN <<>>
        ELSE IF missing /\ entry.def.required THEN <<MissingError(entry.key)>>
        ELSE IF missing /\ entry.def.default # Undefined THEN <<>>
        ELSE IF conv.threw THEN <<ParsingError(entry.key, conv.message)>>
        ELSE IF entry.def.validate # "none" /\ ~CallValidator(entry.def.validate, conv.v)
        THEN <<InvalidError(entry.key)>>
        ELSE <<>>

RECURSIVE KeyFailures(_, _)
KeyFailures(env, entries) ==
    IF entries = <<>> THEN <<>>
    ELSE KeyFailure(env, Head(entries)) \o KeyFailures(env, Tail(entries))

\* C26: descriptor-table validation processes every declared key and
\* reports, in schema order, one error for each key that is missing while
\* required, fails coercion or fails its validator; a failure on one key
\* never prevents a later failing key from being reported.
C26_EveryFailingKeyReported ==
    (valOut.called /\ valIn.schema.form = "descriptor") =>
        valOut.errors = KeyFailures(valIn.env, valIn.schema.entries)

\* Two declared keys, the first missing while required and the second
\* failing its coercion: both are reported, in schema order.
C26_Witness ==
    /\ valOut.called
    /\ valIn.schema.form = "descriptor"
    /\ Len(valIn.schema.entries) = 2
    /\ Len(valOut.errors) = 2
    /\ valOut.errors[1] = MissingError(PORT)
    /\ valOut.errors[2].key = DEBUG
    /\ valOut.errors[2].kind = "Error parsing environment variable"

(***************************************************************************)
(* Claims about the conversion before an external schema                   *)
(***************************************************************************)
\* The rules of the conversion, in their order: what each gives for a raw
\* string, or None where the rule does not apply.
ConversionRules(s) ==
    << IF JSONParse(s).ok THEN Some(JSONParse(s).v) ELSE None,
       IF AllDigits(Unsigned(s, {"-"})) THEN Some(ToNumber(s)) ELSE None,
       IF ToLowerCase(s) = <<"t", "r", "u", "e">> THEN Some(BoolV(TRUE))
       ELSE IF ToLowerCase(s) = <<"f", "a", "l", "s", "e">> THEN Some(BoolV(FALSE))
       ELSE None,
       Some(StrV(s)) >>

FirstApplicable(rules) ==
    rules[CHOOSE i \in DOMAIN rules :
              rules[i].some /\ \A j \in 1..(i - 1) : ~rules[j].some].v

\* C27: before an external (parse-bearing) schema is applied, each raw string
\* value is converted by the first rule that applies, in this order: the
\* JSON-parse result if the string is valid JSON, a number if it matches the
\* numeric-literal pattern, a boolean if it equals true or false ignoring
\* case, otherwise the raw string unchanged; the schema's parse receives
\* exactly this converted mapping.
C27_ParseReceivesConvertedMapping ==
    (valOut.called /\ valIn.schema.form = "external") =>
        /\ DOMAIN valOut.parseArg = DOMAIN valIn.env
        /\ \A k \in DOMAIN valIn.env :
               valOut.parseArg[k] = FirstApplicable(ConversionRules(valIn.env[k]))

\* PORT=null reaches parse as the JSON value null.
C27_Witness ==
    /\ valOut.called
    /\ valIn.schema.form = "external"
    /\ PORT \in DOMAIN valIn.env
    /\ valIn.env[PORT] = <<"n", "u", "l", "l">>
    /\ valOut.parseArg[PORT] = Null

(***************************************************************************)
(* Claims about what survives from one call to the next                    *)
(***************************************************************************)
\* What a reader that keeps nothing from earlier calls returns for the files
\* as they are now.
FreshRead(customPaths, excludePatterns) ==
    readEnvFiles(fs, procEnv, EmptyObject, <<>>, customPaths, excludePatterns, FALSE).env

\* C28: each call of the resolution entry point returns values parsed from
\* the files' contents at the time of that call: when a file's content
\* changes between two calls made without auto-reload, the second call
\* returns the new content's values, because no parsed data survives from
\* one call to the next.
C28_EachCallReadsTheFilesAnew ==
    [][\A cp \in ReaderPaths, ex \in ReaderExcludes :
           (ReadEnvFilesCall(cp, ex, FALSE) /\ \A f \in AllFiles : fs[f] # Unreadable)
               => readOut'.env = FreshRead(cp, ex)]_vars

(***************************************************************************)
(* SpecOwner: createEnv of env.ts called again and again with              *)
(* configurations that differ, the accessor of the earlier call being kept *)
(* and read                                                                *)
(***************************************************************************)
OwnerConfigs ==
    { TsConfig(rt, pe, pp, None, paths, None, FALSE, None) :
        rt \in {None, Some("node"), Some("browser")}, pe \in {None, Some(TRUE)},
        pp \in {None, Some(PUB_)}, paths \in {None, Some(<<".env.local">>)} }

OwnerWorlds ==
    { [host |-> NodeHost, procEnv |-> Some(FullAmbient)],
      [host |-> NodeHost, procEnv |-> Some(EmptyObject)],
      [host |-> BrowserHost, procEnv |-> None] }

\* The keys read through an accessor.
OwnerKeys == {DB, PUB_S, PUB_A}

InitOwner ==
    /\ ValidatorIdle
    /\ ReaderIdle
    /\ EnvIdle

\* The program starts on a host, in a directory.
OwnerStart ==
    /\ envIn = NotCalled
    /\ \E w \in OwnerWorlds, disk \in {EmptyDirectory, DotEnvDirectory} :
           /\ host' = w.host
           /\ procEnv' = w.procEnv
           /\ fs' = disk
           /\ envIn' = [called |-> TRUE, config |-> TsConfig(None, None, None, None, None, None, FALSE, None)]
    /\ UNCHANGED <<valVars, envCache, watchers, readOut, envOut, envStore, storeWatchers,
                   typesFile, getOut, adOut, adHook>>

\* createEnv(config) of env.ts; envIn records the configuration of the
\* latest call and envOut its accessor.
OwnerCreateEnv(config) ==
    /\ envIn # NotCalled
    /\ \E out \in {createEnvTs(config, host, fs, procEnv, typesFile)} :
           /\ envOut' = CallRecord(out)
           /\ envStore' = out.store
           /\ storeWatchers' = out.watchers
           /\ typesFile' = out.types
    /\ envIn' = [called |-> TRUE, config |-> config]
    /\ getOut' = NotCalled
    /\ UNCHANGED <<valVars, readerVars, host, adOut, adHook>>

OwnerCreateAny == \E config \in OwnerConfigs : OwnerCreateEnv(config)

\* A read of a key through the accessor the latest call returned.
OwnerGet == \E prop \in OwnerKeys : GetTs(prop)

NextOwner == OwnerStart \/ OwnerCreateAny \/ OwnerGet

SpecOwner == InitOwner /\ [][NextOwner]_vars

\* C29: an environment object returned by one resolution call keeps
\* returning the same values for the same keys after any later resolution
\* call made with a different configuration: a later call never changes,
\* empties or re-types what an earlier returned accessor yields.
C29_EarlierAccessorKeepsItsValues ==
    [][\A config \in OwnerConfigs :
           (/\ envOut.called
            /\ envOut.returned
            /\ config # envIn.config
            /\ OwnerCreateEnv(config))
               => \A key \in OwnerKeys :
                      createEnvProxyGet(envStore', envOut.runtime, key)
                          = createEnvProxyGet(envStore, envOut.runtime, key)]_vars

(***************************************************************************)
(* Claims about the watch callback and the live store                      *)
(***************************************************************************)
\* C30: when the watch callback of file F runs, it sets the live value of
\* every key that F's new content defines to F's new value (adding the key if
\* it was not stored before), and leaves unchanged the value of every key
\* that F's new content does not define.
C30_CallbackStoresWhatTheFileDefines ==
    [][\A i \in DOMAIN storeWatchers :
           (ChokidarChange(i) /\ fs[storeWatchers[i].file].kind = "file") =>
               /\ \A k \in DOMAIN parseEnvContent(fs[storeWatchers[i].file].text) :
                      /\ k \in DOMAIN envStore'
                      /\ envStore'[k].value = parseEnvContent(fs[storeWatchers[i].file].text)[k]
               /\ \A k \in DOMAIN envStore \ DOMAIN parseEnvContent(fs[storeWatchers[i].file].text) :
                      /\ k \in DOMAIN envStore'
                      /\ envStore'[k].value = envStore[k].value]_vars

====
